---- MODULE Spec2Model ----
(***************************************************************************)
(* OAuth 2.1 authorization client of mcp-inspector: the authorization-flow *)
(* orchestrator (authFlow), the token manager, the client registry (dcr)   *)
(* and the discovery caches, as a state machine.  Every async operation is *)
(* split at its network awaits: one action starts an operation and runs it *)
(* to its first fetch, one action per kind of fetch delivers the response  *)
(* and runs the operation to its next fetch or to its return.              *)
(*                                                                         *)
(* The specifications share the actions and differ in the operations they *)
(* start, the answers of the servers and the number of calls in flight:    *)
(* Spec (the token lifecycle, calls one at a time), SpecFlow (initiation   *)
(* and callback, two calls in flight), SpecRestart (the same across        *)
(* process restarts), SpecScopes (scope resolution), and one each for      *)
(* revocation, discovery, the client registry, the connection manager, the *)
(* metadata caches, token responses, the pure helpers, overlapping         *)
(* refreshes, connect retries, tenants, refresh failures and endpoints.    *)
(***************************************************************************)
EXTENDS Integers, Sequences, FiniteSets, TLC

(* ---------------------------------------------------------------- bounds *)
(* operations started and clock advances in a behaviour of Spec (the token *)
(* lifecycle, calls one at a time)                                         *)
MaxOps == 4
MaxTicks == 1
(* the same in a behaviour of SpecFlow (two calls in flight)               *)
FlowOps == 3
FlowTicks == 1
(* the same, and process restarts, in a behaviour of SpecRestart           *)
RestartOps == 3
RestartTicks == 1
MaxRestarts == 1
(* operations started in a behaviour of SpecScopes *)
ScopeOps == 2
(* operations started in a behaviour of SpecRevoke *)
RevokeOps == 5
(* operations started in a behaviour of SpecDiscovery *)
DiscoveryOps == 2
(* operations started in a behaviour of SpecConnection *)
ConnectionOps == 3
(* operations started and clock advances in a behaviour of SpecCache *)
CacheOps == 4
CacheTicks == 2
(* the longest advertised list of PKCE methods, and how far below 43 and   *)
(* above 128 the verifier lengths go                                       *)
MaxMethods == 3
LengthMargin == 2
(* operations started in a behaviour of SpecUrls, and the most trailing    *)
(* slashes of a server URL                                                 *)
UrlOps == 3
MaxSlashes == 2
(* operations started and clock advances in a behaviour of SpecOverlap *)
OverlapOps == 4
OverlapTicks == 1
(* operations started in a behaviour of SpecConnect, and the count of     *)
(* retries at which the counter of a connect call stops                    *)
ConnectOps == 4
RetryCap == 2
(* operations started in a behaviour of SpecRemove *)
RemoveOps == 3
(* operations started in a behaviour of SpecTenant *)
TenantOps == 3
(* operations started in a behaviour of SpecEndpoint *)
EndpointOps == 2
(* operations started and clock advances in a behaviour of SpecRefresh *)
RefreshOps == 5
RefreshTicks == 1
(* operations started in a behaviour of SpecClients *)
ClientOps == 3
(* operations started and clock advances in a behaviour of SpecTokens *)
TokenOps == 3
TokenTicks == 1
(* operations started and clock advances in a behaviour of SpecStatus *)
StatusOps == 4
StatusTicks == 1
(* operations started and clock advances in a behaviour of SpecRegistry *)
RegistryOps == 3
RegistryTicks == 1

(* the calls that can be in flight at the same time *)
Procs == {1, 2}

(* ------------------------------------------------------------- constants *)
STATE_TTL_MS == 600000
bufferMs == 30000
DEFAULT_EXPIRES_MS == 3600000
CACHE_TTL_MS == 3600000

(* the clock advances by one of these amounts (ms) *)
TickSteps == {599000, 600000, 601000}

(* ------------------------------------------------------- optional values *)
None == [def |-> FALSE, val |-> << >>]
Some(v) == [def |-> TRUE, val |-> v]

(* a Map: a function whose domain is the set of keys present *)
EmptyMap == [k \in {} |-> 0]
MapSet(m, k, v) == [x \in (DOMAIN m) \cup {k} |-> IF x = k THEN v ELSE m[x]]
MapDelete(m, k) == [x \in (DOMAIN m) \ {k} |-> m[x]]

(* ------------------------------------------------------------ the inputs *)
(* a server URL: a base (scheme, host, path without trailing slash), the   *)
(* number of trailing slashes and whether a query string follows           *)
SERVER_URL == [base |-> "https://mcp.example.com/api", slashes |-> 1, query |-> TRUE]

PRECONFIGURED_CLIENT == 100
PRECONFIGURED_SECRET == 150
DCR_SECRET_BASE == 200

REDIRECT == "http://localhost:3001/oauth/callback"

(* OAuthConfig: clientId/clientSecret 0 = undefined.  DcrConfig is the one *)
(* GET /api/oauth/callback builds                                          *)
DcrConfig == [clientId |-> 0, clientSecret |-> 0, scopes |-> None, redirectUri |-> REDIRECT]
PreConfig ==
  [clientId |-> PRECONFIGURED_CLIENT, clientSecret |-> PRECONFIGURED_SECRET,
   scopes |-> None, redirectUri |-> REDIRECT]

Configs == {DcrConfig, PreConfig}

(* the configs of the scope-resolution specification: explicit scopes      *)
(* undefined, empty, or given                                              *)
ScopeConfigs ==
  { [PreConfig EXCEPT !.scopes = sc] : sc \in {None, Some(<< >>), Some(<<"cfg">>)} }

(* a WWW-Authenticate header: absent (null), or a Bearer challenge with an *)
(* optional scope="..." parameter; a scope string is the sequence of the   *)
(* space-separated names it holds                                          *)
NoHeader == [present |-> FALSE, scope |-> None]
Headers == {NoHeader, [present |-> TRUE, scope |-> Some(<<"chal">>)]}
ScopeHeaders == Headers \cup {[present |-> TRUE, scope |-> None]}

ISSUER == "https://auth.example.com"

(* the issuers a protected resource can name: without a path, with a       *)
(* trailing slash, with a path component                                   *)
Issuers == {ISSUER, "https://auth.example.com/", "https://auth.example.com/tenantA"}

(* what the servers publish, fixed for a behaviour *)
Worlds ==
  [ prScopes : {None, Some(<<"pr">>)},
    asScopes : {None, Some(<<"as">>)},
    revocation : {FALSE},
    issuer : {ISSUER} ]

PlainWorld == [prScopes |-> None, asScopes |-> None, revocation |-> FALSE, issuer |-> ISSUER]

(* the protected resource names any of the issuers *)
DiscoveryWorlds == { [PlainWorld EXCEPT !.issuer = i] : i \in Issuers }

(* the authorization server with and without a revocation endpoint *)
RevokeWorlds == { [PlainWorld EXCEPT !.revocation = b] : b \in BOOLEAN }

(* ---------------------------------------------------------- pure helpers *)
(* discovery.ts getCanonicalResourceUri: scheme+host+path, one trailing    *)
(* slash stripped, query dropped                                           *)
getCanonicalResourceUri(u) ==
  [base |-> u.base, slashes |-> IF u.slashes > 0 THEN u.slashes - 1 ELSE 0]

(* discovery.ts parseWwwAuthenticateHeader, the scope parameter *)
parseWwwAuthenticateHeader(h) == [scope |-> h.scope]

(* String.split(' ') of a scope string *)
SplitScopes(s) == s

(* authFlow initiateAuthFlow: the scopes to request.  cfgScopes, challenged *)
(* and prScopes are optional; challenged is truthy when it is a non-empty  *)
(* string                                                                  *)
MutScopesExplicitFirst(cfgScopes, challenged, prScopes) ==
  IF cfgScopes.def THEN cfgScopes
  ELSE IF challenged.def /\ Len(challenged.val) > 0 THEN Some(SplitScopes(challenged.val))
  ELSE IF prScopes.def THEN prScopes
  ELSE cfgScopes

DetermineScopes(cfgScopes, challenged, prScopes) ==
  IF challenged.def /\ Len(challenged.val) > 0 THEN Some(SplitScopes(challenged.val))
  ELSE IF (~cfgScopes.def) /\ prScopes.def THEN prScopes
  ELSE cfgScopes

(* authFlow buildAuthorizationUrl: the scope parameter of the URL *)
MutUrlScopeNoFallback(scopes, asScopes) ==
  IF scopes.def /\ Len(scopes.val) > 0 THEN scopes ELSE None

UrlScopeParam(scopes, asScopes) ==
  IF scopes.def /\ Len(scopes.val) > 0 THEN scopes
  ELSE IF asScopes.def /\ Len(asScopes.val) > 0 THEN asScopes
  ELSE None

(* authFlow handleAuthCallback / cleanupExpiredStates: the expiry test *)
MutStateExpiredAtTtl(oauthState, t) == t - oauthState.createdAt >= STATE_TTL_MS

StateExpired(oauthState, t) == t - oauthState.createdAt > STATE_TTL_MS

(* authFlow loadStatesFromFile: the load filter *)
MutLoadFilterStrict(file, t) ==
  [s \in {x \in DOMAIN file : t - file[x].createdAt < STATE_TTL_MS} |-> file[s]]

LoadFilter(file, t) ==
  [s \in {x \in DOMAIN file : t - file[x].createdAt <= STATE_TTL_MS} |-> file[s]]

(* authFlow cleanupExpiredStates on the pending map *)
cleanupExpiredStates(pending, t) ==
  [s \in {x \in DOMAIN pending : ~StateExpired(pending[x], t)} |-> pending[s]]

(* tokenManager hasValidTokens / canRefresh on the token store *)
MutHasValidTokensNoBuffer(ts, r, t) == r \in DOMAIN ts /\ ts[r].expiresAt > t

hasValidTokens(ts, r, t) == r \in DOMAIN ts /\ ts[r].expiresAt > t + bufferMs

canRefresh(ts, r) == r \in DOMAIN ts /\ ts[r].refreshToken # 0

(* pkce.ts selectPkceMethod: "" is the null (unsupported) signal *)
MutSelectPrefersPlain(methods) ==
  IF (~methods.def) \/ Len(methods.val) = 0 THEN "S256"
  ELSE IF \E i \in 1..Len(methods.val) : methods.val[i] = "plain" THEN "plain"
  ELSE IF \E i \in 1..Len(methods.val) : methods.val[i] = "S256" THEN "S256"
  ELSE ""

selectPkceMethod(methods) ==
  IF (~methods.def) \/ Len(methods.val) = 0 THEN "S256"
  ELSE IF \E i \in 1..Len(methods.val) : methods.val[i] = "S256" THEN "S256"
  ELSE IF \E i \in 1..Len(methods.val) : methods.val[i] = "plain" THEN "plain"
  ELSE ""

(* discovery.ts supportsDcr *)
supportsDcr(as) == as.registration_endpoint # ""

(* String.replace(/\/$/, ''): one trailing slash is removed *)
TrimTrailingSlash(s) ==
  CASE s = "https://auth.example.com/" -> "https://auth.example.com"
    [] s = "https://auth.example.com/tenantA/" -> "https://auth.example.com/tenantA"
    [] OTHER -> s

(* new URL(issuer).pathname is neither empty nor "/" *)
HasPath(issuer) ==
  issuer \in {"https://auth.example.com/tenantA", "https://auth.example.com/tenantA/",
              "https://auth.example.com/tenantB"}

(* discovery.ts getAuthServerMetadataUrls: the well-known URLs in try order, *)
(* each named by its scheme                                                *)
getAuthServerMetadataUrls(issuer) ==
  IF HasPath(issuer)
    THEN << "/.well-known/oauth-authorization-server/{path}",
            "/.well-known/openid-configuration/{path}",
            "/{path}/.well-known/openid-configuration" >>
    ELSE << "/.well-known/oauth-authorization-server",
            "/.well-known/openid-configuration" >>

(* discoverAuthServerMetadata: the required fields of a document *)
ValidASDoc(d) ==
  d.issuer # "" /\ d.authorization_endpoint # "" /\ d.token_endpoint # ""

(* discoverAuthServerMetadata: the issuer check *)
MutIssuerMatchesAlways(issuer, metadataIssuer) == TRUE

IssuerMatches(issuer, metadataIssuer) ==
  TrimTrailingSlash(issuer) = TrimTrailingSlash(metadataIssuer)

(* -------------------------------------------------- the published documents *)
PRDoc(wd) ==
  [resource |-> "https://mcp.example.com/api",
   authorization_servers |-> <<wd.issuer>>,
   scopes_supported |-> wd.prScopes]

ASDoc(wd) ==
  [issuer |-> ISSUER,
   authorization_endpoint |-> "https://auth.example.com/authorize",
   token_endpoint |-> "https://auth.example.com/token",
   registration_endpoint |-> "https://auth.example.com/register",
   revocation_endpoint |-> IF wd.revocation THEN "https://auth.example.com/revoke" ELSE "",
   scopes_supported |-> wd.asScopes,
   code_challenge_methods_supported |-> Some(<<"S256">>)]

(* ------------------------------------------------------- record defaults *)
NoRes == [base |-> "", slashes |-> 0]
NoUrl == [base |-> "", slashes |-> 0, query |-> FALSE]
NoConfig == [clientId |-> 0, clientSecret |-> 0, scopes |-> None, redirectUri |-> ""]
NoState ==
  [state |-> 0, codeVerifier |-> 0, redirectUri |-> "", resourceUri |-> NoRes,
   issuer |-> "", createdAt |-> 0, scopes |-> None]
NoPR == [resource |-> "", authorization_servers |-> << >>, scopes_supported |-> None]
NoAS ==
  [issuer |-> "", authorization_endpoint |-> "", token_endpoint |-> "",
   registration_endpoint |-> "", revocation_endpoint |-> "",
   scopes_supported |-> None, code_challenge_methods_supported |-> None]
NoAuthUrl ==
  [endpoint |-> "", response_type |-> "", client_id |-> 0, redirect_uri |-> "", state |-> 0,
   code_challenge |-> 0, code_challenge_method |-> "", resource |-> NoRes,
   scope |-> None]
NoTokens ==
  [accessToken |-> 0, refreshToken |-> 0, tokenType |-> "", expiresAt |-> 0,
   scope |-> None]

(* a RegisteredClient; clientSecret 0 = undefined, clientSecretExpiresAt in *)
(* seconds, 0 = unset                                                      *)
NoClient ==
  [clientId |-> 0, clientSecret |-> 0, issuer |-> "", resourceUri |-> NoRes,
   clientSecretExpiresAt |-> 0]

(* a DCRResponse: ok = a 2xx status, client_id 0 = missing *)
NoDcrResponse ==
  [ok |-> FALSE, client_id |-> 0, client_secret |-> 0, client_secret_expires_at |-> 0]

(* a token response not received *)
NoTokenResponse ==
  [status |-> 0, access_token |-> 0, refresh_token |-> 0, expires_in |-> -1,
   token_type |-> "", scope |-> None]

(* what a finished call handed to its caller                               *)
(*   tag: "none" (running), "url" (authorizationUrl+state), "tokens",      *)
(*        "token" (an access token), "null", "status", "void", "client",   *)
(*        "error"                                                          *)
NoResult ==
  [tag |-> "none", err |-> "", state |-> 0, url |-> NoAuthUrl, accessToken |-> 0,
   authenticated |-> FALSE]

Error(e) == [NoResult EXCEPT !.tag = "error", !.err = e]

INVALID_STATE == "Invalid or expired OAuth state. Please try authorizing again."
EXPIRED_STATE == "OAuth state has expired. Please try authorizing again."

(* the loop of discoverAuthServerMetadata over urlsToTry, from URL i on:    *)
(* outs[i] is what URL i answers (ok = a 2xx response with a JSON body),   *)
(* mismatched the first valid document with another issuer met so far      *)
(* (NoAS = null).  The result: whether metadata was found, the metadata,   *)
(* and the number of URLs fetched                                          *)
RECURSIVE DiscoverLoop(_, _, _, _)
DiscoverLoop(outs, i, issuer, mismatched) ==
  IF i > Len(outs)
    THEN [ok |-> mismatched # NoAS, data |-> mismatched, fetches |-> Len(outs)]
  ELSE IF (~outs[i].ok) \/ ~ValidASDoc(outs[i].doc)
    THEN DiscoverLoop(outs, i + 1, issuer, mismatched)
  ELSE IF ~IssuerMatches(issuer, outs[i].doc.issuer)
    THEN DiscoverLoop(outs, i + 1, issuer,
                      IF mismatched = NoAS THEN outs[i].doc ELSE mismatched)
  ELSE [ok |-> TRUE, data |-> outs[i].doc, fetches |-> i]

(* one call of an orchestrator operation: its position, its arguments, its *)
(* locals, and what it has done so far (requests sent, stores written)     *)
IdleCall ==
  [op |-> "idle", pc |-> "idle", phase |-> "none", caller |-> "route",
   serverUrl |-> NoUrl, config |-> NoConfig, header |-> NoHeader,
   challengedScopes |-> None, code |-> 0, state |-> 0,
   oauthState |-> NoState, protectedResource |-> NoPR, authServer |-> NoAS,
   issuer |-> "", clientId |-> 0, clientSecret |-> 0, token |-> 0,
   currentTokens |-> NoTokens, result |-> NoResult,
   netSent |-> 0, refreshSent |-> 0, refreshStatus |-> 0, refreshOk |-> FALSE,
   refreshedToken |-> 0,
   gvaEntered |-> FALSE, validAtCheck |-> FALSE, storedAtCheck |-> 0,
   gvaReturned |-> 0, gvaNet |-> 0,
   exchangeSent |-> 0, exClientId |-> 0, exClientSecret |-> 0,
   tokWrites |-> 0, created |-> 0, createdScopes |-> None,
   priorUses |-> 0, ageAtEntry |-> 0, foundState |-> FALSE, afterRestart |-> FALSE,
   resourceUri |-> NoRes, regBefore |-> << >>, regAfterLookup |-> << >>,
   gotClient |-> NoClient, dcrResponse |-> NoDcrResponse, storedTokens |-> NoTokens,
   asRequested |-> "", asAnswers |-> << >>, asFetches |-> 0, asResult |-> NoAS,
   exTokenEndpoint |-> "", tokensBefore |-> << >>, pendingBefore |-> << >>,
   revokeEntered |-> FALSE, hadTokens |-> FALSE, hadRefresh |-> FALSE,
   hadEndpoint |-> FALSE, revokeSent |-> 0, revokeFailed |-> 0, caught |-> FALSE,
   metaUsed |-> FALSE, metaFetchedAt |-> 0, metaAge |-> 0, metaEra |-> 0,
   clearedDuring |-> FALSE,
   tokenResponse |-> NoTokenResponse, prevTokens |-> NoTokens, prevIssuer |-> ""]

Suspended ==
  {"await_pr", "await_as", "await_dcr", "await_exchange", "await_refresh",
   "await_revoke_access", "await_revoke_refresh"}

(* a call that has returned or thrown keeps its arguments, its result and  *)
(* its record of what it did; its locals are dropped                        *)
Done(c, res) ==
  [c EXCEPT !.pc = "done", !.phase = "none", !.result = res,
            !.protectedResource = NoPR, !.authServer = NoAS, !.issuer = "",
            !.clientId = 0, !.clientSecret = 0, !.token = 0,
            !.currentTokens = NoTokens, !.challengedScopes = None]

Ret(w, c) == [w |-> w, c |-> c]

(* the catch block of revokeAuthorization: removeTokens(resourceUri)        *)
MutRevokeCatchKeepsTokens(ts, r) == ts

RevokeCatch(ts, r) == [x \in (DOMAIN ts) \ {r} |-> ts[x]]

(* an exception thrown at the current position of call c: the try/catch of *)
(* getAccessToken, getOAuthStatus and handle401Response around the refresh *)
(* attempt swallows it, revokeAuthorization catches everything and removes *)
(* the local tokens, everything else throws to the caller                  *)
MutThrowReachesCaller(w, c, e) == Ret(w, Done(c, Error(e)))

Throw(w, c, e) ==
  IF c.phase = "revoke"
    THEN Ret([w EXCEPT !.tokenStore = RevokeCatch(@, getCanonicalResourceUri(c.serverUrl))],
             Done([c EXCEPT !.caught = TRUE], [NoResult EXCEPT !.tag = "void"]))
  ELSE IF c.phase = "token" /\ c.op = "getAccessToken"
    THEN Ret(w, Done(c, [NoResult EXCEPT !.tag = "null"]))
  ELSE IF c.phase = "token" /\ c.op = "getOAuthStatus"
    THEN Ret(w, Done(c, [NoResult EXCEPT !.tag = "status", !.authenticated = FALSE]))
  ELSE IF c.phase = "token" /\ c.op = "handle401"
    THEN Ret(w, [c EXCEPT !.pc = "initiate"])
  ELSE Ret(w, Done(c, Error(e)))

(* ------------------------------------------- encryption at rest (AES-GCM) *)
(* the module-level encryptionKey of tokenManager and dcr, both set by     *)
(* initializeOAuth from the environment at start-up: NoKey is null         *)
VARIABLE encryptionKey

NoKey == 0
KEY == 1

(* `iv:authTag:ciphertext` of a text under a key: a value that is no       *)
(* plaintext, from which the key and only the key gives the text back      *)
CIPHER_BASE == 100000

(* tokenManager / dcr encrypt *)
MutEncryptKeepsPlaintext(text) == text

encrypt(text) ==
  IF encryptionKey = NoKey THEN text ELSE CIPHER_BASE * encryptionKey + text

(* tokenManager / dcr decrypt: a value that does not split into three      *)
(* ':'-separated parts is returned as it is; under another key the         *)
(* authentication fails (-1)                                               *)
decrypt(encryptedText) ==
  IF encryptionKey = NoKey THEN encryptedText
  ELSE IF encryptedText < CIPHER_BASE THEN encryptedText
  ELSE IF encryptedText \div CIPHER_BASE = encryptionKey THEN encryptedText % CIPHER_BASE
  ELSE -1

(* ------------------------------------------------- the client registry (dcr) *)
(* dcr getClientCacheKey: `issuer|resourceUri|redirectUri`, or               *)
(* `issuer|resourceUri` when no redirect URI is given ("")                  *)
getClientCacheKey(issuer, resourceUri, redirectUri) ==
  [issuer |-> issuer, resourceUri |-> resourceUri, redirectUri |-> redirectUri]

(* the bases of which one is the other followed by "/" and a path segment *)
PathExtends(long, short) ==
  <<long, short>> \in {<<"https://mcp.example.com/api/v2", "https://mcp.example.com/api">>}

(* String.startsWith on canonical URIs: k starts with r when it has the    *)
(* same base and as many trailing slashes, or a base that goes on after r  *)
UriStartsWith(k, r) ==
  \/ k.base = r.base /\ r.slashes <= k.slashes
  \/ PathExtends(k.base, r.base) /\ r.slashes <= 1

(* the lookup exact on the pair, as a Map keyed by the pair would do it    *)
MutKeyMatchesPair(key, issuer, resourceUri) ==
  key.issuer = issuer /\ key.resourceUri = resourceUri

(* key.startsWith(`${issuer}|${resourceUri}`) *)
KeyStartsWith(key, issuer, resourceUri) ==
  key.issuer = issuer /\ UriStartsWith(key.resourceUri, resourceUri)

(* clientSecretExpiresAt (seconds, 0 = unset) < Date.now() / 1000 *)
MutClientNeverExpired(client, t) == FALSE

clientExpired(client, t) ==
  client.clientSecretExpiresAt # 0 /\ client.clientSecretExpiresAt * 1000 < t

(* the client handed out: { ...client, clientSecret: decrypt(clientSecret) } *)
PlainClient(client) ==
  [client EXCEPT !.clientSecret = IF @ # 0 THEN decrypt(@) ELSE 0]

RemoveAt(seq, i) == [j \in 1..(Len(seq) - 1) |-> IF j < i THEN seq[j] ELSE seq[j + 1]]

(* the fallback loop of getRegisteredClient over the Map in insertion order *)
RECURSIVE FallbackScan(_, _, _, _, _)
FallbackScan(cs, i, issuer, resourceUri, t) ==
  IF i > Len(cs) THEN [clients |-> cs, found |-> FALSE, client |-> NoClient]
  ELSE IF KeyStartsWith(cs[i].key, issuer, resourceUri)
    THEN IF clientExpired(cs[i].client, t)
           THEN FallbackScan(RemoveAt(cs, i), i, issuer, resourceUri, t)
           ELSE [clients |-> cs, found |-> TRUE, client |-> PlainClient(cs[i].client)]
  ELSE FallbackScan(cs, i + 1, issuer, resourceUri, t)

(* dcr getRegisteredClient: the registry after the call (expired entries   *)
(* met on the way are deleted), whether a client was found, and the client *)
getRegisteredClient(cs, issuer, resourceUri, redirectUri, t) ==
  LET key == getClientCacheKey(issuer, resourceUri, redirectUri)
      idx == {i \in 1..Len(cs) : cs[i].key = key}
  IN  IF redirectUri # "" /\ idx # {}
        THEN LET i == CHOOSE j \in idx : TRUE
             IN  IF clientExpired(cs[i].client, t)
                   THEN FallbackScan(RemoveAt(cs, i), 1, issuer, resourceUri, t)
                   ELSE [clients |-> cs, found |-> TRUE, client |-> PlainClient(cs[i].client)]
        ELSE FallbackScan(cs, 1, issuer, resourceUri, t)

(* dcr storeRegisteredClient: Map.set keeps the position of a key present  *)
storeRegisteredClient(cs, issuer, resourceUri, redirectUri, response) ==
  LET key == getClientCacheKey(issuer, resourceUri, redirectUri)
      client == [clientId |-> response.client_id,
                 clientSecret |-> IF response.client_secret # 0
                                  THEN encrypt(response.client_secret) ELSE 0,
                 issuer |-> issuer, resourceUri |-> resourceUri,
                 clientSecretExpiresAt |-> response.client_secret_expires_at]
      idx == {i \in 1..Len(cs) : cs[i].key = key}
      entry == [key |-> key, client |-> client]
  IN  IF idx # {}
        THEN [i \in 1..Len(cs) |-> IF i \in idx THEN entry ELSE cs[i]]
        ELSE Append(cs, entry)

(* dcr removeRegisteredClient: registeredClients.delete of the key built   *)
(* without a redirect URI; removed is the boolean Map.delete returns       *)
removeRegisteredClient(cs, issuer, resourceUri) ==
  LET key == getClientCacheKey(issuer, resourceUri, "")
      idx == {i \in 1..Len(cs) : cs[i].key = key}
  IN  IF idx = {} THEN [clients |-> cs, removed |-> FALSE]
      ELSE [clients |-> RemoveAt(cs, CHOOSE i \in idx : TRUE), removed |-> TRUE]

(* ------------------------------------------------------ the token manager *)
(* tokenManager storeTokens *)
storeTokens(ts, resourceUri, tokens, issuer) ==
  MapSet(ts, resourceUri,
         [accessToken |-> encrypt(tokens.accessToken),
          refreshToken |-> IF tokens.refreshToken # 0 THEN encrypt(tokens.refreshToken)
                           ELSE 0,
          tokenType |-> tokens.tokenType, expiresAt |-> tokens.expiresAt,
          scope |-> tokens.scope, issuer |-> issuer])

(* tokenManager getTokens: NoTokens is null *)
getTokens(ts, resourceUri) ==
  IF resourceUri \in DOMAIN ts
    THEN [accessToken |-> decrypt(ts[resourceUri].accessToken),
          refreshToken |-> IF ts[resourceUri].refreshToken # 0
                             THEN decrypt(ts[resourceUri].refreshToken) ELSE 0,
          tokenType |-> ts[resourceUri].tokenType,
          expiresAt |-> ts[resourceUri].expiresAt,
          scope |-> ts[resourceUri].scope]
    ELSE NoTokens

(* tokenManager getTokenIssuer: "" is null *)
getTokenIssuer(ts, resourceUri) ==
  IF resourceUri \in DOMAIN ts THEN ts[resourceUri].issuer ELSE ""

(* tokenManager removeTokens *)
removeTokens(ts, resourceUri) == MapDelete(ts, resourceUri)

(* the tokens built from a token response by exchangeCodeForTokens         *)
(* (prev = NoTokens) and by refreshTokens (prev = the tokens read before   *)
(* the request).  expires_in is in seconds; an absent expires_in and an    *)
(* expires_in of 0 are both falsy, an absent token_type is ""              *)
NoExpiresIn == -1

Truthy(n) == n # NoExpiresIn /\ n # 0

MutRefreshDropsRefreshToken(resp, prev, t) ==
  [accessToken |-> resp.access_token,
   tokenType |-> IF resp.token_type # "" THEN resp.token_type ELSE "Bearer",
   expiresAt |-> IF Truthy(resp.expires_in) THEN t + resp.expires_in * 1000
                 ELSE t + DEFAULT_EXPIRES_MS,
   refreshToken |-> resp.refresh_token,
   scope |-> IF resp.scope.def THEN resp.scope ELSE prev.scope]

TokensFromResponse(resp, prev, t) ==
  [accessToken |-> resp.access_token,
   tokenType |-> IF resp.token_type # "" THEN resp.token_type ELSE "Bearer",
   expiresAt |-> IF Truthy(resp.expires_in) THEN t + resp.expires_in * 1000
                 ELSE t + DEFAULT_EXPIRES_MS,
   refreshToken |-> IF resp.refresh_token # 0 THEN resp.refresh_token
                    ELSE prev.refreshToken,
   scope |-> IF resp.scope.def THEN resp.scope ELSE prev.scope]

(* pkce.ts CODE_VERIFIER_CHARSET, character by character *)
CODE_VERIFIER_CHARSET ==
  <<"A", "B", "C", "D", "E", "F", "G", "H", "I", "J", "K", "L", "M", "N",
    "O", "P", "Q", "R", "S", "T", "U", "V", "W", "X", "Y", "Z", "a", "b",
    "c", "d", "e", "f", "g", "h", "i", "j", "k", "l", "m", "n", "o", "p",
    "q", "r", "s", "t", "u", "v", "w", "x", "y", "z", "0", "1", "2", "3",
    "4", "5", "6", "7", "8", "9", "-", ".", "_", "~">>

MIN_VERIFIER_LENGTH == 43
MAX_VERIFIER_LENGTH == 128

NoVerifier == [ok |-> FALSE, chars |-> << >>]

(* pkce.ts generateCodeVerifier(length), randomBytes being what            *)
(* crypto.randomBytes(length) returns: ok FALSE is the thrown Error        *)
MutVerifierAccepts42(length, randomBytes) ==
  IF length < MIN_VERIFIER_LENGTH - 1 \/ length > MAX_VERIFIER_LENGTH THEN NoVerifier
  ELSE [ok |-> TRUE, chars |-> [i \in 1..length |-> CODE_VERIFIER_CHARSET[(randomBytes[i] % Len(CODE_VERIFIER_CHARSET)) + 1]]]

generateCodeVerifier(length, randomBytes) ==
  IF length < MIN_VERIFIER_LENGTH \/ length > MAX_VERIFIER_LENGTH THEN NoVerifier
  ELSE [ok |-> TRUE, chars |-> [i \in 1..length |-> CODE_VERIFIER_CHARSET[(randomBytes[i] % Len(CODE_VERIFIER_CHARSET)) + 1]]]

(* pkce.ts generateCodeChallenge: the SHA-256 digest of a verifier is a    *)
(* value distinct from every verifier                                      *)
SHA256_TAG == 10000
generateCodeChallenge(verifier, method) ==
  IF method = "S256" THEN SHA256_TAG + verifier ELSE verifier

(* new URL(s): an absolute URL parses, anything else throws a TypeError;   *)
(* the strings of the model that are no absolute URLs                      *)
RELATIVE_ENDPOINT == "/oauth2/authorize"

ParsesAsUrl(s) == s \notin {"", RELATIVE_ENDPOINT}

(* authFlow buildAuthorizationUrl *)
buildAuthorizationUrl(authServer, clientId, redirectUri, state, codeChallenge, codeChallengeMethod, resourceUri, scopes) ==
  [endpoint |-> authServer.authorization_endpoint,
   response_type |-> "code",
   client_id |-> clientId,
   redirect_uri |-> redirectUri,
   state |-> state,
   code_challenge |-> codeChallenge,
   code_challenge_method |-> codeChallengeMethod,
   resource |-> resourceUri,
   scope |-> UrlScopeParam(scopes, authServer.scopes_supported)]

(* ------------------------------------------- the synchronous code blocks *)
(* w is the record of the module-level stores, c the call.  Each block is  *)
(* the code between two positions of an operation and ends by naming the   *)
(* next position; positions in Suspended wait for a response.              *)

(* the resource URI a call works on *)
ResourceOf(c) ==
  IF c.phase = "callback" THEN c.oauthState.resourceUri
  ELSE IF c.phase = "register" THEN c.resourceUri
  ELSE getCanonicalResourceUri(c.serverUrl)

(* initiateAuthFlow, up to its getMetadata call *)
B_initiate(w, c) ==
  LET cleaned == cleanupExpiredStates(w.pendingStates, w.now)
      deleted == cleaned # w.pendingStates
  IN  Ret([w EXCEPT !.pendingStates = cleaned,
                    !.statesFile = IF deleted THEN cleaned ELSE @],
          [c EXCEPT !.phase = "initiate", !.pc = "getMetadata"])

(* call c uses at time t a metadata document fetched at time fetchedAt,    *)
(* after era calls of clearMetadataCache: the call's record of the oldest  *)
(* document it has used                                                    *)
UseDoc(c, era, fetchedAt, t) ==
  [c EXCEPT !.metaUsed = TRUE,
            !.metaEra = IF c.metaUsed /\ @ < era THEN @ ELSE era,
            !.metaFetchedAt = IF c.metaUsed /\ @ < fetchedAt THEN @ ELSE fetchedAt,
            !.metaAge = IF c.metaUsed /\ @ > t - fetchedAt THEN @ ELSE t - fetchedAt]

(* authFlow getMetadata: the orchestrator's own cache, which never expires *)
B_getMetadata(w, c) ==
  LET r == getCanonicalResourceUri(c.serverUrl)
  IN  IF r \in DOMAIN w.resourceMetadataCache
        THEN LET e == w.resourceMetadataCache[r]
             IN  Ret(w, [UseDoc(c, e.era, e.fetchedAt, w.now) EXCEPT
                              !.protectedResource = e.protectedResource,
                              !.authServer = e.authServer,
                              !.pc = "getOrRegisterClient"])
        ELSE Ret(w, [c EXCEPT !.pc = "discoverPR"])

(* discovery discoverProtectedResourceMetadata: cache keyed by the raw URL *)
B_discoverPR(w, c) ==
  LET key == c.serverUrl
      cache == w.protectedResourceMetadataCache
  IN  IF key \in DOMAIN cache /\ cache[key].expiresAt > w.now
        THEN Ret(w, [UseDoc(c, cache[key].era, cache[key].expiresAt - CACHE_TTL_MS, w.now)
                       EXCEPT !.protectedResource = cache[key].data, !.pc = "afterPR"])
        ELSE Ret(w, [c EXCEPT !.pc = "await_pr", !.netSent = @ + 1])

(* getMetadata: the first authorization server of the document *)
B_afterPR(w, c) ==
  Ret(w, [c EXCEPT !.issuer = c.protectedResource.authorization_servers[1],
                   !.pc = "discoverAS"])

(* discovery discoverAuthServerMetadata: cache keyed by the requested issuer *)
B_discoverAS(w, c) ==
  LET cache == w.authServerMetadataCache
  IN  IF c.issuer \in DOMAIN cache /\ cache[c.issuer].expiresAt > w.now
        THEN Ret(w, [UseDoc(c, cache[c.issuer].era,
                            cache[c.issuer].expiresAt - CACHE_TTL_MS, w.now)
                       EXCEPT !.authServer = cache[c.issuer].data, !.pc = "afterAS"])
        ELSE Ret(w, [c EXCEPT !.pc = "await_as", !.netSent = @ + 1])

(* getMetadata caches the pair; handleAuthCallback called discovery itself *)
B_afterAS(w, c) ==
  IF c.phase = "callback"
    THEN Ret(w, [c EXCEPT !.pc = "getOrRegisterClient"])
    ELSE Ret([w EXCEPT !.resourceMetadataCache =
                         MapSet(@, getCanonicalResourceUri(c.serverUrl),
                                [protectedResource |-> c.protectedResource,
                                 authServer |-> c.authServer,
                                 fetchedAt |-> c.metaFetchedAt, era |-> c.metaEra])],
             [c EXCEPT !.pc = "getOrRegisterClient"])

(* authFlow getOrRegisterClient, up to the registration request *)
B_getOrRegisterClient(w, c) ==
  IF c.config.clientId # 0
    THEN Ret(w, [c EXCEPT !.clientId = c.config.clientId,
                          !.clientSecret = c.config.clientSecret,
                          !.pc = "afterClient"])
    ELSE LET look == getRegisteredClient(w.registeredClients, c.authServer.issuer,
                                         ResourceOf(c), c.config.redirectUri, w.now)
             w1 == [w EXCEPT !.registeredClients = look.clients]
         IN  IF look.found
               THEN Ret(w1, [c EXCEPT !.clientId = look.client.clientId,
                                      !.clientSecret = look.client.clientSecret,
                                      !.pc = "afterClient"])
             ELSE IF ~supportsDcr(c.authServer)
               THEN Throw(w1, c, "Authorization server does not support Dynamic Client Registration")
             ELSE Ret(w1, [c EXCEPT !.pc = "await_dcr", !.netSent = @ + 1])

(* dcr registerClient, up to the registration request *)
B_registerClient(w, c) ==
  IF c.authServer.registration_endpoint = ""
    THEN Throw(w, c, "Authorization server does not support Dynamic Client Registration")
  ELSE LET look == getRegisteredClient(w.registeredClients, c.authServer.issuer,
                                       c.resourceUri, c.config.redirectUri, w.now)
           w1 == [w EXCEPT !.registeredClients = look.clients]
       IN  IF look.found
             THEN Ret(w1, Done([c EXCEPT !.gotClient = look.client,
                                         !.regAfterLookup = look.clients],
                               [NoResult EXCEPT !.tag = "client"]))
             ELSE Ret(w1, [c EXCEPT !.pc = "await_dcr", !.netSent = @ + 1,
                                    !.regAfterLookup = look.clients])

(* what follows getOrRegisterClient in each operation *)
B_afterClient(w, c) ==
  IF c.phase = "register" THEN Ret(w, Done(c, [NoResult EXCEPT !.tag = "client"]))
  ELSE IF c.phase = "initiate" THEN Ret(w, [c EXCEPT !.pc = "finishInitiate"])
  ELSE IF c.phase = "callback"
    THEN Ret(w, [c EXCEPT !.pc = "await_exchange", !.netSent = @ + 1,
                          !.exchangeSent = @ + 1, !.exClientId = c.clientId,
                          !.exClientSecret = c.clientSecret,
                          !.exTokenEndpoint = c.authServer.token_endpoint])
  ELSE IF c.phase = "revoke" THEN Ret(w, [c EXCEPT !.pc = "revokeTokens"])
  ELSE Ret(w, [c EXCEPT !.pc = "getValidAccessToken"])

(* initiateAuthFlow, from the scopes to the return *)
B_finishInitiate(w, c) ==
  LET r == getCanonicalResourceUri(c.serverUrl)
      scopes == DetermineScopes(c.config.scopes, c.challengedScopes,
                                c.protectedResource.scopes_supported)
      sel == selectPkceMethod(c.authServer.code_challenge_methods_supported)
      method == IF sel = "" THEN "S256" ELSE sel
      st == w.nextState
      verifier == st
      oauthState == [state |-> st, codeVerifier |-> verifier,
                     redirectUri |-> c.config.redirectUri, resourceUri |-> r,
                     issuer |-> c.authServer.issuer, createdAt |-> w.now,
                     scopes |-> scopes]
      pend == MapSet(w.pendingStates, st, oauthState)
      url == buildAuthorizationUrl(c.authServer, c.clientId, c.config.redirectUri, st,
                                   generateCodeChallenge(verifier, method), method, r, scopes)
  IN  IF ~ParsesAsUrl(c.authServer.authorization_endpoint)
        THEN Ret([w EXCEPT !.pendingStates = pend, !.statesFile = pend,
                           !.nextState = @ + 1],
                 Done([c EXCEPT !.created = @ + 1, !.createdScopes = scopes],
                      Error("Invalid URL")))
      ELSE
      Ret([w EXCEPT !.pendingStates = pend, !.statesFile = pend,
                    !.nextState = @ + 1,
                    !.issued = MapSet(@, st, [url |-> url, epoch |-> w.epoch,
                                              createdAt |-> w.now,
                                              clientSecret |-> c.clientSecret,
                                              resourceUri |-> r,
                                              tokenEndpoint |-> c.authServer.token_endpoint])],
          Done([c EXCEPT !.created = @ + 1, !.createdScopes = scopes],
               [NoResult EXCEPT !.tag = "url", !.state = st, !.url = url]))

(* tokenManager getValidAccessToken, up to the refresh request *)
MutGvaSkipsValidCheck(w, c) ==
  LET r == getCanonicalResourceUri(c.serverUrl)
      cur == getTokens(w.tokenStore, r)
      c1 == [c EXCEPT !.gvaEntered = TRUE, !.storedAtCheck = cur.accessToken,
                      !.validAtCheck = hasValidTokens(w.tokenStore, r, w.now)]
  IN  IF canRefresh(w.tokenStore, r)
        THEN Ret(w, [c1 EXCEPT !.currentTokens = cur,
                               !.pc = "await_refresh", !.netSent = @ + 1,
                               !.gvaNet = @ + 1, !.refreshSent = @ + 1])
      ELSE Ret(w, [c1 EXCEPT !.token = 0, !.pc = "afterToken"])

B_getValidAccessToken(w, c) ==
  LET r == getCanonicalResourceUri(c.serverUrl)
      cur == getTokens(w.tokenStore, r)
      c1 == [c EXCEPT !.gvaEntered = TRUE, !.storedAtCheck = cur.accessToken,
                      !.validAtCheck = hasValidTokens(w.tokenStore, r, w.now)]
  IN  IF hasValidTokens(w.tokenStore, r, w.now)
        THEN Ret(w, [c1 EXCEPT !.token = cur.accessToken,
                               !.gvaReturned = cur.accessToken, !.pc = "afterToken"])
      ELSE IF canRefresh(w.tokenStore, r)
        THEN Ret(w, [c1 EXCEPT !.currentTokens = cur,
                               !.pc = "await_refresh", !.netSent = @ + 1,
                               !.gvaNet = @ + 1, !.refreshSent = @ + 1])
      ELSE Ret(w, [c1 EXCEPT !.token = 0, !.pc = "afterToken"])

(* what follows getValidAccessToken in each operation *)
B_afterToken(w, c) ==
  IF c.op = "refreshTokens"
    THEN Ret(w, Done(c, IF c.token # 0
                          THEN [NoResult EXCEPT !.tag = "tokens", !.accessToken = c.token]
                          ELSE Error("Token refresh failed")))
  ELSE IF c.op = "getAccessToken"
    THEN Ret(w, Done(c, IF c.token # 0
                          THEN [NoResult EXCEPT !.tag = "token", !.accessToken = c.token]
                          ELSE [NoResult EXCEPT !.tag = "null"]))
  ELSE IF c.op = "getOAuthStatus"
    THEN Ret(w, Done(c, [NoResult EXCEPT !.tag = "status", !.authenticated = (c.token # 0)]))
  ELSE IF c.token # 0
    THEN Ret(w, Done(c, [NoResult EXCEPT !.tag = "null"]))
  ELSE Ret(w, [c EXCEPT !.pc = "initiate"])

(* tokenManager revokeTokens, up to the first revocation request *)
B_revokeTokens(w, c) ==
  LET r == getCanonicalResourceUri(c.serverUrl)
      tokens == getTokens(w.tokenStore, r)
      c1 == [c EXCEPT !.revokeEntered = TRUE, !.hadTokens = (tokens # NoTokens),
                      !.hadRefresh = (tokens.refreshToken # 0),
                      !.hadEndpoint = (c.authServer.revocation_endpoint # "")]
  IN  IF tokens = NoTokens
        THEN Ret(w, Done(c1, [NoResult EXCEPT !.tag = "void"]))
      ELSE IF c.authServer.revocation_endpoint = ""
        THEN Ret([w EXCEPT !.tokenStore = removeTokens(@, r)],
                 Done(c1, [NoResult EXCEPT !.tag = "void"]))
      ELSE Ret(w, [c1 EXCEPT !.currentTokens = tokens, !.pc = "await_revoke_access",
                             !.netSent = @ + 1, !.revokeSent = @ + 1])

Step(w, c) ==
  CASE c.pc = "initiate" -> B_initiate(w, c)
    [] c.pc = "getMetadata" -> B_getMetadata(w, c)
    [] c.pc = "discoverPR" -> B_discoverPR(w, c)
    [] c.pc = "afterPR" -> B_afterPR(w, c)
    [] c.pc = "discoverAS" -> B_discoverAS(w, c)
    [] c.pc = "afterAS" -> B_afterAS(w, c)
    [] c.pc = "getOrRegisterClient" -> B_getOrRegisterClient(w, c)
    [] c.pc = "afterClient" -> B_afterClient(w, c)
    [] c.pc = "finishInitiate" -> B_finishInitiate(w, c)
    [] c.pc = "getValidAccessToken" -> B_getValidAccessToken(w, c)
    [] c.pc = "afterToken" -> B_afterToken(w, c)
    [] c.pc = "revokeTokens" -> B_revokeTokens(w, c)
    [] c.pc = "registerClient" -> B_registerClient(w, c)

(* run call c from its position to its next await or to its return (n is  *)
(* the outcome of the block at the position, computed once)                *)
RECURSIVE Run(_, _)
Run(w, c) ==
  IF c.pc \in Suspended \cup {"done", "idle"} THEN Ret(w, c)
  ELSE CHOOSE r \in { Run(n.w, n.c) : n \in {Step(w, c)} } : TRUE

(* connectionManager ServerConnection: accessToken 0 = null, config the    *)
(* OAuthConfig of its ServerConfig, pending the http info of the request   *)
(* in flight (Authorization 0 = no such header)                            *)
(* no pure helper called yet *)
NoPure ==
  [fn |-> "none", methods |-> None, method |-> "", length |-> 0, randomBytes |-> << >>,
   verifier |-> NoVerifier, url |-> NoUrl, canonical |-> NoRes, again |-> NoRes]

(* phase is the position of the connect call in progress ("idle": none),   *)
(* retries the times it has called itself again, up to RetryCap, outcome   *)
(* how the last connect call ended                                         *)
NoConnection ==
  [config |-> NoConfig, accessToken |-> 0, connected |-> FALSE,
   pending |-> FALSE, pendingAuthorization |-> 0,
   phase |-> "idle", retries |-> 0, outcome |-> "none"]

(* ------------------------------------------------------------- the state *)
VARIABLES
  now,                             \* Date.now(), ms
  world,                           \* what the servers publish
  pendingStates,                   \* authFlow pendingStates: state -> OAuthState
  statesFile,                      \* the content of .oauth-states.json
  tokenStore,                      \* tokenManager tokenStore: resourceUri -> tokens
  registeredClients,               \* dcr registeredClients, in insertion order
  resourceMetadataCache,           \* authFlow resourceMetadataCache
  authServerMetadataCache,         \* discovery authServerMetadataCache
  protectedResourceMetadataCache,  \* discovery protectedResourceMetadataCache
  call,                            \* the calls in flight
  returned,                        \* the call that has just returned or thrown
  nextState,                       \* the next value generateState returns
  nextClient,                      \* the next client_id the registration endpoint issues
  nextToken,                       \* the next token the token endpoint issues
  issued,                          \* state -> the authorization URL handed out for it
  consumed,                        \* state -> callbacks that got past the state lookup
  epoch,                           \* process restarts so far
  ticks,                           \* clock advances so far
  opsStarted,                      \* operations started so far
  limit,                           \* the bounds of this behaviour
  connection,                      \* connectionManager: the ServerConnection
  httpLog,                         \* httpLogger: the entries emitted
  clears,                          \* calls of clearMetadataCache so far
  pure                             \* the last call of a pure helper

vars ==
  <<now, world, pendingStates, statesFile, tokenStore, registeredClients,
    resourceMetadataCache, authServerMetadataCache, protectedResourceMetadataCache,
    call, returned, nextState, nextClient, nextToken, issued, consumed, epoch, ticks, opsStarted, limit,
    encryptionKey, connection, httpLog, clears, pure>>

StateIds == 1..(MaxOps + FlowOps + RestartOps + ScopeOps + RevokeOps + DiscoveryOps + ConnectionOps + StatusOps + CacheOps + TokenOps + OverlapOps + ConnectOps + TenantOps + RefreshOps + EndpointOps)

AUTH_CODE == 7
REFRESH_TAG == 500

(* the module-level stores as one record *)
W ==
  [now |-> now, world |-> world, epoch |-> epoch,
   pendingStates |-> pendingStates, statesFile |-> statesFile,
   tokenStore |-> tokenStore, registeredClients |-> registeredClients,
   resourceMetadataCache |-> resourceMetadataCache,
   authServerMetadataCache |-> authServerMetadataCache,
   protectedResourceMetadataCache |-> protectedResourceMetadataCache,
   nextState |-> nextState, nextClient |-> nextClient, nextToken |-> nextToken,
   issued |-> issued, consumed |-> consumed]

(* the module-level stores become those of record w *)
StoresBecome(w) ==
  /\ pendingStates' = w.pendingStates
  /\ statesFile' = w.statesFile
  /\ tokenStore' = w.tokenStore
  /\ registeredClients' = w.registeredClients
  /\ resourceMetadataCache' = w.resourceMetadataCache
  /\ authServerMetadataCache' = w.authServerMetadataCache
  /\ protectedResourceMetadataCache' = w.protectedResourceMetadataCache
  /\ nextState' = w.nextState
  /\ nextClient' = w.nextClient
  /\ nextToken' = w.nextToken
  /\ issued' = w.issued
  /\ consumed' = w.consumed
  /\ UNCHANGED <<now, world, epoch, ticks, limit, encryptionKey, clears, pure>>

(* the step of call p that ends with stores r.w and call r.c (x is r,     *)
(* computed once)                                                          *)
ApplyStores(p, r) ==
  \E x \in {r} :
    /\ StoresBecome(x.w)
    /\ IF x.c.pc = "done"
         THEN call' = [call EXCEPT ![p] = IdleCall] /\ returned' = x.c
         ELSE call' = [call EXCEPT ![p] = x.c] /\ returned' = returned

(* the same, for a step the connection manager has no part in *)
Apply(p, r) == ApplyStores(p, r) /\ UNCHANGED <<connection, httpLog>>

InitKeyed(worlds, lim, keys) ==
  /\ encryptionKey \in keys
  /\ connection = NoConnection
  /\ httpLog = {}
  /\ clears = 0
  /\ pure = NoPure
  /\ now = 0
  /\ world \in worlds
  /\ limit = lim
  /\ pendingStates = EmptyMap
  /\ statesFile = EmptyMap
  /\ tokenStore = EmptyMap
  /\ registeredClients = << >>
  /\ resourceMetadataCache = EmptyMap
  /\ authServerMetadataCache = EmptyMap
  /\ protectedResourceMetadataCache = EmptyMap
  /\ call = [p \in Procs |-> IdleCall]
  /\ returned = IdleCall
  /\ nextState = 1
  /\ nextClient = 1
  /\ nextToken = 1
  /\ issued = EmptyMap
  /\ consumed = [s \in StateIds |-> 0]
  /\ epoch = 0
  /\ ticks = 0
  /\ opsStarted = 0

(* no encryption key in the environment *)
InitIn(worlds, lim) == InitKeyed(worlds, lim, {NoKey})

Init ==
  InitIn({PlainWorld}, [ops |-> MaxOps, ticks |-> MaxTicks, restarts |-> 0, procs |-> 1])

(* no call is handing its result to its caller *)
Quiet == returned.pc = "idle"

(* a new call takes the first free slot *)
CanStart(p) ==
  /\ Quiet
  /\ call[p].pc = "idle"
  /\ \A q \in Procs : q < p => call[q].pc # "idle"
  /\ p <= limit.procs
  /\ opsStarted < limit.ops

Started == opsStarted' = opsStarted + 1

(* --------------------------------------------------- starting an operation *)
(* POST /api/oauth/authorize: initiateAuthFlow(serverUrl, config) *)
InitiateAuthFlowAt(p, cfgs, urls) ==
  /\ CanStart(p)
  /\ Started
  /\ \E cfg \in cfgs, u \in urls :
       Apply(p, Run(W, [IdleCall EXCEPT !.op = "initiate", !.pc = "initiate",
                                        !.serverUrl = u, !.config = cfg]))

InitiateAuthFlowOn(p, cfgs) == InitiateAuthFlowAt(p, cfgs, {SERVER_URL})

InitiateAuthFlow(p) == InitiateAuthFlowOn(p, Configs)

(* handleAuthCallback removes the used state: pendingStates.delete(state)   *)
MutConsumeKeepsState(pending, st) == pending

MutConsumeClearsPending(pending, st) == [s \in {} |-> NoState]

ConsumeState(pending, st) == MapDelete(pending, st)

(* handleAuthCallback for a state that pendingStates.get does not find:    *)
(* the stores when the error is thrown                                     *)
MutUnknownStateClearsPending(w) == [w EXCEPT !.pendingStates = EmptyMap, !.statesFile = EmptyMap]

UnknownState(w) == w

(* handleAuthCallback(code, state, config), up to its first await *)
HandleAuthCallbackOn(p, cfgs) ==
  /\ CanStart(p)
  /\ Started
  /\ \E st \in 1..nextState, cfg \in cfgs :
       LET known == st \in DOMAIN issued
           c0 == [IdleCall EXCEPT !.op = "callback", !.code = AUTH_CODE, !.state = st,
                                  !.config = cfg, !.priorUses = consumed[st],
                                  !.tokensBefore = tokenStore,
                                  !.pendingBefore = pendingStates,
                                  !.ageAtEntry = IF known THEN now - issued[st].createdAt
                                                 ELSE 0,
                                  !.afterRestart = known /\ issued[st].epoch < epoch]
       IN  IF st \notin DOMAIN pendingStates
             THEN Apply(p, Ret(UnknownState(W), Done(c0, Error(INVALID_STATE))))
             ELSE LET os == pendingStates[st]
                      pend == ConsumeState(pendingStates, st)
                      w1 == [W EXCEPT !.pendingStates = pend, !.statesFile = pend,
                                      !.consumed = [@ EXCEPT ![st] = @ + 1]]
                      c1 == [c0 EXCEPT !.foundState = TRUE, !.oauthState = os]
                  IN  IF StateExpired(os, now)
                        THEN Apply(p, Ret(w1, Done(c1, Error(EXPIRED_STATE))))
                        ELSE Apply(p, Run(w1, [c1 EXCEPT !.phase = "callback",
                                                         !.issuer = os.issuer,
                                                         !.pc = "discoverAS"]))

HandleAuthCallback(p) == HandleAuthCallbackOn(p, Configs)

(* getAccessToken(serverUrl, config), for the call c0 carrying its         *)
(* arguments, up to its first await                                        *)
GetAccessTokenFrom(c0) ==
  LET r == getCanonicalResourceUri(c0.serverUrl)
  IN  IF hasValidTokens(tokenStore, r, now)
        THEN Ret(W, Done(c0, [NoResult EXCEPT
                                !.tag = "token",
                                !.accessToken = getTokens(tokenStore, r).accessToken]))
        ELSE Run(W, [c0 EXCEPT !.phase = "token", !.pc = "getMetadata"])

GetAccessTokenOn(p, cfgs, urls) ==
  /\ CanStart(p)
  /\ Started
  /\ \E cfg \in cfgs, u \in urls :
       Apply(p, GetAccessTokenFrom([IdleCall EXCEPT !.op = "getAccessToken",
                                                    !.serverUrl = u,
                                                    !.config = cfg]))

GetAccessToken(p) == GetAccessTokenOn(p, {PreConfig}, {SERVER_URL})

NO_REFRESH_TOKEN == "No refresh token available"

(* refreshTokens(metadata, resourceUri, clientId, clientSecret) called     *)
(* directly, with the authorization server's document                      *)
RefreshTokensOn(p, urls) ==
  /\ CanStart(p)
  /\ Started
  /\ \E u \in urls :
       LET r == getCanonicalResourceUri(u)
           cur == getTokens(tokenStore, r)
           c0 == [IdleCall EXCEPT !.op = "refreshTokens", !.serverUrl = u,
                                  !.config = PreConfig, !.authServer = ASDoc(world),
                                  !.tokensBefore = tokenStore]
       IN  IF cur.refreshToken = 0
             THEN Apply(p, Ret(W, Done(c0, Error(NO_REFRESH_TOKEN))))
             ELSE Apply(p, Ret(W, [c0 EXCEPT !.phase = "refresh", !.currentTokens = cur,
                                             !.pc = "await_refresh", !.netSent = @ + 1,
                                             !.refreshSent = @ + 1]))

(* getOAuthStatus(serverUrl, config) *)
GetOAuthStatusOn(p, cfgs) ==
  /\ CanStart(p)
  /\ Started
  /\ \E cfg \in cfgs :
       LET r == getCanonicalResourceUri(SERVER_URL)
           c0 == [IdleCall EXCEPT !.op = "getOAuthStatus", !.serverUrl = SERVER_URL,
                                  !.config = cfg]
       IN  IF hasValidTokens(tokenStore, r, now)
             THEN Apply(p, Ret(W, Done(c0, [NoResult EXCEPT !.tag = "status",
                                                            !.authenticated = TRUE])))
             ELSE Apply(p, Run(W, [c0 EXCEPT !.phase = "token", !.pc = "getMetadata"]))

GetOAuthStatus(p) == GetOAuthStatusOn(p, {PreConfig})

(* handle401Response(serverUrl, wwwAuthenticateHeader, config) *)
Handle401ResponseOn(p, cfgs, hdrs) ==
  /\ CanStart(p)
  /\ Started
  /\ \E cfg \in cfgs, h \in hdrs :
       LET challenged == IF h.present THEN parseWwwAuthenticateHeader(h).scope ELSE None
       IN  Apply(p, Run(W, [IdleCall EXCEPT !.op = "handle401", !.serverUrl = SERVER_URL,
                                            !.config = cfg, !.header = h,
                                            !.challengedScopes = challenged,
                                            !.phase = "token", !.pc = "getMetadata"]))

Handle401Response(p) == Handle401ResponseOn(p, {PreConfig}, Headers)

(* the first position of handle403Response: straight to initiateAuthFlow *)
MutHandle403TriesRefresh == [phase |-> "token", pc |-> "getMetadata"]

Handle403Entry == [phase |-> "initiate", pc |-> "initiate"]

(* handle403Response(serverUrl, wwwAuthenticateHeader, config) *)
Handle403ResponseOn(p, cfgs, hdrs) ==
  /\ CanStart(p)
  /\ Started
  /\ \E cfg \in cfgs, h \in hdrs :
       LET required == IF h.present THEN parseWwwAuthenticateHeader(h).scope ELSE None
       IN  Apply(p, Run(W, [IdleCall EXCEPT !.op = "handle403", !.serverUrl = SERVER_URL,
                                            !.config = cfg, !.header = h,
                                            !.challengedScopes = required,
                                            !.phase = Handle403Entry.phase,
                                            !.pc = Handle403Entry.pc]))

Handle403Response(p) == Handle403ResponseOn(p, {PreConfig}, Headers)

(* the arguments of the direct calls of the registry: two issuers, a       *)
(* resource and one below it, two redirect URIs (the callback port changed) *)
OTHER_ISSUER == "https://login.example.org"
RES_API == [base |-> "https://mcp.example.com/api", slashes |-> 0]
RES_API_V2 == [base |-> "https://mcp.example.com/api/v2", slashes |-> 0]
RegResources == {RES_API, RES_API_V2}
REDIRECT_2 == "http://localhost:3002/oauth/callback"
RegRedirects == {REDIRECT, REDIRECT_2}

(* registrations: every resource and redirect URI at ISSUER, one client at *)
(* the other issuer; lookups: the same, the redirect URI optional          *)
RegistrationArgs ==
  [issuer : {ISSUER}, resourceUri : RegResources, redirectUri : RegRedirects]
    \cup {[issuer |-> OTHER_ISSUER, resourceUri |-> RES_API, redirectUri |-> REDIRECT]}

LookupArgs ==
  [issuer : {ISSUER}, resourceUri : RegResources, redirectUri : RegRedirects \cup {""}]
    \cup {[issuer |-> OTHER_ISSUER, resourceUri |-> RES_API, redirectUri |-> REDIRECT_2]}

(* dcr registerClient(metadata, resourceUri, redirectUri) *)
RegisterClientWith(p, args) ==
  /\ CanStart(p)
  /\ Started
  /\ \E a \in args :
       Apply(p, Run(W, [IdleCall EXCEPT !.op = "registerClient", !.phase = "register",
                                        !.authServer = [ASDoc(world) EXCEPT !.issuer = a.issuer],
                                        !.asRequested = a.issuer,
                                        !.resourceUri = a.resourceUri,
                                        !.config = [DcrConfig EXCEPT !.redirectUri = a.redirectUri],
                                        !.regBefore = registeredClients,
                                        !.pc = "registerClient"]))

RegisterClient(p) == RegisterClientWith(p, RegistrationArgs)

(* the same registrations, and one with an empty redirect URI, whose key   *)
(* is the one built without redirect URI                                   *)
RemoveArgs ==
  RegistrationArgs \cup {[issuer |-> ISSUER, resourceUri |-> RES_API, redirectUri |-> ""]}

(* dcr getRegisteredClient(issuer, resourceUri, redirectUri), redirectUri  *)
(* optional ("")                                                           *)
GetRegisteredClient(p) ==
  /\ CanStart(p)
  /\ Started
  /\ \E a \in LookupArgs :
       LET look == getRegisteredClient(registeredClients, a.issuer, a.resourceUri,
                                       a.redirectUri, now)
           c0 == [IdleCall EXCEPT !.op = "getRegisteredClient",
                                  !.resourceUri = a.resourceUri,
                                  !.asRequested = a.issuer,
                                  !.config = [DcrConfig EXCEPT !.redirectUri = a.redirectUri],
                                  !.regBefore = registeredClients,
                                  !.gotClient = look.client]
       IN  Apply(p, Ret([W EXCEPT !.registeredClients = look.clients],
                        Done(c0, [NoResult EXCEPT !.tag = IF look.found THEN "client"
                                                         ELSE "null"])))

(* dcr removeRegisteredClient(issuer, resourceUri) *)
RemoveRegisteredClient(p) ==
  /\ CanStart(p)
  /\ Started
  /\ \E a \in RegistrationArgs :
       LET rem == removeRegisteredClient(registeredClients, a.issuer, a.resourceUri)
           c0 == [IdleCall EXCEPT !.op = "removeRegisteredClient",
                                  !.resourceUri = a.resourceUri,
                                  !.asRequested = a.issuer,
                                  !.regBefore = registeredClients]
       IN  Apply(p, Ret([W EXCEPT !.registeredClients = rem.clients],
                        Done(c0, [NoResult EXCEPT !.tag = IF rem.removed THEN "true"
                                                         ELSE "false"])))

(* ------------------------------------------------- the connection manager *)
(* a LogEntry of httpLogger, by what it can hold of a secret: the client   *)
(* secret inside params (params.config.oauth.clientSecret) and the bearer  *)
(* token inside http.requestHeaders.Authorization; 0 = none                *)
LogEntry(direction, method, clientSecret, authorization) ==
  [direction |-> direction, method |-> method, clientSecret |-> clientSecret,
   authorization |-> authorization]

(* connectionManager getHttpInfo: the Authorization header of the http info *)
MutHttpInfoOmitsAuthorization(conn) == 0

getHttpInfo(conn) == conn.accessToken

(* connectionManager connect(serverId, config) for an HTTP transport with  *)
(* OAuth enabled, up to the first await of getAccessToken                  *)
Connect(p) ==
  /\ CanStart(p)
  /\ Started
  /\ \E cfg \in Configs :
       /\ ApplyStores(p, GetAccessTokenFrom([IdleCall EXCEPT !.op = "getAccessToken",
                                                             !.serverUrl = SERVER_URL,
                                                             !.config = cfg,
                                                             !.caller = "connection"]))
       /\ connection' = [connection EXCEPT !.config = cfg, !.accessToken = 0,
                                           !.connected = FALSE]
       /\ httpLog' = httpLog \cup
                       {LogEntry("notification", "connection:start", cfg.clientSecret, 0)}

(* connect goes on after an orchestrator call it awaited: with a token the *)
(* transport is set up and the client connects or fails to; without one    *)
(* checkOAuthAuthorizationForConnection calls handle401Response and        *)
(* connect returns the authorization URL                                   *)
ConnectionResume ==
  /\ returned.pc = "done"
  /\ returned.caller = "connection"
  /\ UNCHANGED opsStarted
  /\ IF returned.op = "getAccessToken" /\ returned.result.tag = "token"
       THEN /\ StoresBecome(W)
            /\ UNCHANGED call
            /\ returned' = IdleCall
            /\ \E ok \in BOOLEAN :
                 /\ connection' = [connection EXCEPT
                                     !.accessToken = returned.result.accessToken,
                                     !.connected = ok]
                 /\ httpLog' = httpLog \cup
                      {LogEntry("notification", "oauth:token_attached", 0, 0),
                       LogEntry("request", "initialize", 0, 0),
                       IF ok THEN LogEntry("response", "unknown", 0, 0)
                       ELSE LogEntry("error", "connection:failed", 0, 0)}
     ELSE IF returned.op = "getAccessToken"
       THEN LET p == CHOOSE q \in Procs : call[q].pc = "idle" /\ \A o \in Procs : o < q => call[o].pc # "idle"
                r == Run(W, [IdleCall EXCEPT !.op = "handle401", !.serverUrl = SERVER_URL,
                                             !.config = returned.config,
                                             !.caller = "connection",
                                             !.phase = "token", !.pc = "getMetadata"])
            IN  /\ StoresBecome(r.w)
                /\ IF r.c.pc = "done"
                     THEN call' = call /\ returned' = r.c
                     ELSE call' = [call EXCEPT ![p] = r.c] /\ returned' = IdleCall
                /\ UNCHANGED <<connection, httpLog>>
     ELSE /\ StoresBecome(W)
          /\ UNCHANGED <<call, connection, httpLog>>
          /\ returned' = IdleCall

(* an orchestrator call awaited by connect starts, its start and its first *)
(* synchronous stretch running to r                                        *)
ConnectionAwaits(r) ==
  \E x \in {r} :
    /\ StoresBecome(x.w)
    /\ IF x.c.pc = "done"
         THEN call' = call /\ returned' = x.c
         ELSE call' = [call EXCEPT ![1] = x.c] /\ returned' = IdleCall

(* the call connect makes at each position *)
ConnectionCall(op, cfg) ==
  [IdleCall EXCEPT !.op = op, !.serverUrl = SERVER_URL, !.config = cfg,
                   !.caller = "connection"]

ConnectionGetAccessToken(cfg) == GetAccessTokenFrom(ConnectionCall("getAccessToken", cfg))

ConnectionHandle401(cfg) ==
  Run(W, [ConnectionCall("handle401", cfg) EXCEPT !.phase = "token", !.pc = "getMetadata"])

ConnectionGetOAuthStatus(cfg) ==
  LET c0 == ConnectionCall("getOAuthStatus", cfg)
  IN  IF hasValidTokens(tokenStore, getCanonicalResourceUri(SERVER_URL), now)
        THEN Ret(W, Done(c0, [NoResult EXCEPT !.tag = "status", !.authenticated = TRUE]))
        ELSE Run(W, [c0 EXCEPT !.phase = "token", !.pc = "getMetadata"])

(* connect returns a status or throws *)
ConnectEnds(outcome, connected) ==
  connection' = [connection EXCEPT !.phase = "idle", !.outcome = outcome,
                                   !.connected = connected]

(* connectionManager connect(serverId, config) for the streamable-http     *)
(* transport with OAuth enabled: disconnect, then                          *)
(* checkOAuthAuthorizationForConnection up to the await of getAccessToken  *)
ConnectCall(p) ==
  /\ CanStart(p)
  /\ Started
  /\ connection.phase = "idle"
  /\ \A q \in Procs : call[q].pc = "idle"
  /\ ConnectionAwaits(ConnectionGetAccessToken(PreConfig))
  /\ connection' = [NoConnection EXCEPT !.config = PreConfig, !.phase = "check"]
  /\ httpLog' = httpLog \cup
                  {LogEntry("notification", "connection:start", PreConfig.clientSecret, 0)}

(* connect goes on after the orchestrator call it awaited *)
ConnectContinue ==
  /\ returned.pc = "done"
  /\ returned.caller = "connection"
  /\ connection.phase \in {"check", "check401", "status", "oauthError", "newToken"}
  /\ UNCHANGED opsStarted
  /\ LET cfg == connection.config
         res == returned.result
     IN  CASE connection.phase = "check" /\ res.tag = "token" ->
                (* the transport is built with the token and the client connects *)
                /\ StoresBecome(W)
                /\ UNCHANGED call
                /\ returned' = IdleCall
                /\ connection' = [connection EXCEPT !.accessToken = res.accessToken,
                                                    !.phase = "connecting"]
                /\ httpLog' = httpLog \cup
                     {LogEntry("notification", "oauth:token_attached", 0, 0),
                      LogEntry("request", "initialize", 0, 0)}
           [] connection.phase = "check" /\ res.tag # "token" ->
                /\ ConnectionAwaits(ConnectionHandle401(cfg))
                /\ connection' = [connection EXCEPT !.phase = "check401"]
                /\ UNCHANGED httpLog
           [] connection.phase = "check401" ->
                (* authorizationRequired, with or without a URL or an error *)
                /\ StoresBecome(W)
                /\ UNCHANGED <<call, httpLog>>
                /\ returned' = IdleCall
                /\ ConnectEnds("authorization", FALSE)
           [] connection.phase = "status" ->
                /\ StoresBecome(W)
                /\ UNCHANGED call
                /\ returned' = IdleCall
                /\ ConnectEnds("connected", TRUE)
                /\ httpLog' = httpLog \cup {LogEntry("response", "unknown", 0, 0)}
           [] connection.phase = "oauthError" /\ res.tag = "url" ->
                /\ StoresBecome(W)
                /\ UNCHANGED <<call, httpLog>>
                /\ returned' = IdleCall
                /\ ConnectEnds("authorization", FALSE)
           [] connection.phase = "oauthError" /\ res.tag = "null" ->
                /\ ConnectionAwaits(ConnectionGetAccessToken(cfg))
                /\ connection' = [connection EXCEPT !.phase = "newToken"]
                /\ UNCHANGED httpLog
           [] connection.phase = "oauthError" /\ res.tag \notin {"url", "null"} ->
                (* handle401Response threw: caught, handleOAuthError returns null *)
                /\ StoresBecome(W)
                /\ UNCHANGED call
                /\ returned' = IdleCall
                /\ ConnectEnds("error", FALSE)
                /\ httpLog' = httpLog \cup {LogEntry("error", "connection:failed", 0, 0)}
           [] connection.phase = "newToken" /\ res.tag = "token" ->
                (* 'retry': disconnectTransport, then connect(serverId, config) *)
                /\ ConnectionAwaits(ConnectionGetAccessToken(cfg))
                /\ connection' = [NoConnection EXCEPT
                                     !.config = cfg, !.phase = "check",
                                     !.retries = IF connection.retries < RetryCap
                                                   THEN connection.retries + 1
                                                   ELSE RetryCap]
                /\ httpLog' = httpLog \cup
                     {LogEntry("notification", "connection:start", cfg.clientSecret, 0)}
           [] connection.phase = "newToken" /\ res.tag # "token" ->
                /\ StoresBecome(W)
                /\ UNCHANGED call
                /\ returned' = IdleCall
                /\ ConnectEnds("error", FALSE)
                /\ httpLog' = httpLog \cup {LogEntry("error", "connection:failed", 0, 0)}

(* what the server answers to client.connect(transport): it accepts, it    *)
(* answers 401 (an error handleOAuthError takes for an authorization       *)
(* error), or the attempt fails otherwise                                  *)
ConnectOutcomes == {"ok", "401", "error"}

(* client.connect(transport) returns or throws, and connect goes on to its *)
(* next await or to its end                                                *)
ConnectAnswer ==
  /\ Quiet
  /\ connection.phase = "connecting"
  /\ \A q \in Procs : call[q].pc = "idle"
  /\ UNCHANGED opsStarted
  /\ \E answer \in ConnectOutcomes :
       CASE answer = "ok" ->
              /\ ConnectionAwaits(ConnectionGetOAuthStatus(connection.config))
              /\ connection' = [connection EXCEPT !.phase = "status"]
              /\ UNCHANGED httpLog
         [] answer = "401" ->
              /\ ConnectionAwaits(ConnectionHandle401(connection.config))
              /\ connection' = [connection EXCEPT !.phase = "oauthError"]
              /\ UNCHANGED httpLog
         [] answer = "error" ->
              /\ StoresBecome(W)
              /\ UNCHANGED <<call, returned>>
              /\ ConnectEnds("error", FALSE)
              /\ httpLog' = httpLog \cup {LogEntry("error", "connection:failed", 0, 0)}

(* connectionManager listTools, up to its await: logRequest with the http  *)
(* info of the connection                                                  *)
ListTools ==
  /\ Quiet
  /\ connection.connected
  /\ ~connection.pending
  /\ connection' = [connection EXCEPT !.pending = TRUE,
                                      !.pendingAuthorization = getHttpInfo(connection)]
  /\ httpLog' = httpLog \cup
                  {LogEntry("request", "tools/list", 0, getHttpInfo(connection))}
  /\ StoresBecome(W)
  /\ UNCHANGED <<call, returned, opsStarted>>

(* listTools after its await: logResponse merges the http info kept with   *)
(* the pending request into the response or error entry                    *)
ToolsListed ==
  /\ Quiet
  /\ connection.pending
  /\ \E ok \in BOOLEAN :
       httpLog' = httpLog \cup
         {LogEntry(IF ok THEN "response" ELSE "error", "tools/list", 0,
                   connection.pendingAuthorization)}
  /\ connection' = [connection EXCEPT !.pending = FALSE, !.pendingAuthorization = 0]
  /\ StoresBecome(W)
  /\ UNCHANGED <<call, returned, opsStarted>>

(* revokeAuthorization(serverUrl, config) *)
RevokeAuthorizationOn(p, cfgs) ==
  /\ CanStart(p)
  /\ Started
  /\ \E cfg \in cfgs :
       Apply(p, Run(W, [IdleCall EXCEPT !.op = "revoke", !.serverUrl = SERVER_URL,
                                        !.config = cfg, !.phase = "revoke",
                                        !.storedAtCheck =
                                          getTokens(tokenStore,
                                                    getCanonicalResourceUri(SERVER_URL)).accessToken,
                                        !.pc = "getMetadata"]))

(* ------------------------------------------------------------ the responses *)
(* the protected-resource metadata fetch of discoverProtectedResourceMetadata *)
(* returns: a valid document is cached and the call goes on; a failure of  *)
(* every URL throws                                                        *)
PRResponse(p) ==
  /\ Quiet
  /\ call[p].pc = "await_pr"
  /\ \E ok \in BOOLEAN :
       LET c == call[p]
       IN  IF ok
             THEN Apply(p, Run([W EXCEPT !.protectedResourceMetadataCache =
                                   MapSet(@, c.serverUrl,
                                          [data |-> PRDoc(world),
                                           expiresAt |-> now + CACHE_TTL_MS,
                                           era |-> clears])],
                               [UseDoc(c, clears, now, now) EXCEPT
                                         !.protectedResource = PRDoc(world),
                                         !.pc = "afterPR"]))
             ELSE LET t == Throw(W, c, "Failed to discover Protected Resource Metadata")
                  IN  Apply(p, Run(t.w, t.c))
  /\ UNCHANGED opsStarted

(* what a well-known URL can answer: an error (HTTP status, network, bad   *)
(* JSON) or a document                                                     *)
AnswerFail == [ok |-> FALSE, doc |-> NoAS]
AnswerDoc(d) == [ok |-> TRUE, doc |-> d]

(* every URL serves the authorization server's document, or every URL fails *)
PlainAnswers == { [i \in 1..3 |-> AnswerDoc(ASDoc(world))], [i \in 1..3 |-> AnswerFail] }

(* each URL fails, serves a document without token_endpoint, or serves the *)
(* document under one of four issuers                                      *)
DocIssuers == Issuers \cup {"https://auth.example.com/tenantB"}

UrlAnswers ==
  {AnswerFail, AnswerDoc([ASDoc(world) EXCEPT !.token_endpoint = ""])}
    \cup { AnswerDoc([ASDoc(world) EXCEPT !.issuer = i]) : i \in DocIssuers }

DiscoveryAnswers == [1..3 -> UrlAnswers]

(* the metadata fetches of discoverAuthServerMetadata return: answers[i] is *)
(* what the i-th URL tried would answer.  The loop reads and writes only   *)
(* its locals between its fetches, so the fetches are taken as one step    *)
ASResponseFrom(p, answers) ==
  /\ Quiet
  /\ call[p].pc = "await_as"
  /\ LET c == call[p]
         n == Len(getAuthServerMetadataUrls(c.issuer))
     IN  \E outs \in {SubSeq(a, 1, n) : a \in answers} :
           LET res == DiscoverLoop(outs, 1, c.issuer, NoAS)
               c1 == [c EXCEPT !.asRequested = c.issuer, !.asAnswers = outs,
                               !.asFetches = res.fetches, !.asResult = res.data,
                               !.netSent = @ + res.fetches - 1]
           IN  IF res.ok
                 THEN Apply(p, Run([W EXCEPT !.authServerMetadataCache =
                                       MapSet(@, c.issuer,
                                              [data |-> res.data,
                                               expiresAt |-> now + CACHE_TTL_MS,
                                               era |-> clears])],
                                   [UseDoc(c1, clears, now, now) EXCEPT
                                      !.authServer = res.data, !.pc = "afterAS"]))
                 ELSE LET t == Throw(W, c1, "Failed to discover Authorization Server Metadata")
                      IN  Apply(p, Run(t.w, t.c))
  /\ UNCHANGED opsStarted

ASResponse(p) == ASResponseFrom(p, PlainAnswers)

(* what the registration endpoint can answer: a new client, confidential   *)
(* or public, or an error                                                  *)
DcrResponses(n) ==
  { [ok |-> TRUE, client_id |-> n, client_secret |-> DCR_SECRET_BASE + n,
     client_secret_expires_at |-> 0],
    [ok |-> TRUE, client_id |-> n, client_secret |-> 0, client_secret_expires_at |-> 0],
    [ok |-> FALSE, client_id |-> 0, client_secret |-> 0, client_secret_expires_at |-> 0] }

(* the two outcomes of a registration: a confidential client or an error  *)
RestartDcrResponses(n) == {r \in DcrResponses(n) : r.ok => r.client_secret # 0}

(* the registration endpoint issues a secret that never expires or expires *)
(* SECRET_EXPIRES_AT seconds after the start, answers without client_id,   *)
(* or answers with an error status                                         *)
SECRET_EXPIRES_AT == 600

RegistryDcrResponses(n) ==
  { [ok |-> TRUE, client_id |-> n, client_secret |-> DCR_SECRET_BASE + n,
     client_secret_expires_at |-> e] : e \in {0, SECRET_EXPIRES_AT} }
    \cup { [ok |-> TRUE, client_id |-> 0, client_secret |-> 0, client_secret_expires_at |-> 0],
           [ok |-> FALSE, client_id |-> 0, client_secret |-> 0, client_secret_expires_at |-> 0] }

(* registerClient: a 2xx status and a client_id in the body *)
MutDcrAcceptsWithoutClientId(resp) == resp.ok

DcrAccepted(resp) == resp.ok /\ resp.client_id # 0

(* the registration request of registerClient returns *)
DCRResponseFrom(p, responses) ==
  /\ Quiet
  /\ call[p].pc = "await_dcr"
  /\ \E resp \in responses :
       LET c == [call[p] EXCEPT !.dcrResponse = resp]
       IN  IF DcrAccepted(resp)
             THEN Apply(p, Run([W EXCEPT !.registeredClients =
                                   storeRegisteredClient(@, c.authServer.issuer, ResourceOf(c),
                                                         c.config.redirectUri, resp),
                                         !.nextClient = @ + 1],
                               [c EXCEPT !.clientId = resp.client_id,
                                         !.clientSecret = resp.client_secret,
                                         !.gotClient =
                                           [clientId |-> resp.client_id,
                                            clientSecret |-> resp.client_secret,
                                            issuer |-> c.authServer.issuer,
                                            resourceUri |-> ResourceOf(c),
                                            clientSecretExpiresAt |->
                                              resp.client_secret_expires_at],
                                         !.pc = "afterClient"]))
             ELSE LET t == Throw(W, c, "DCR failed")
                  IN  Apply(p, Run(t.w, t.c))
  /\ UNCHANGED opsStarted

(* what the token endpoint can answer; token n is new, 0 is an absent field; *)
(* expires_in (seconds) is absent or such that the token stops being valid *)
(* STATE_TTL_MS after it was issued                                        *)
SHORT_EXPIRES_IN == 630

TokenResponse(status, at, rt, ei) ==
  [status |-> status, access_token |-> at, refresh_token |-> rt, expires_in |-> ei,
   token_type |-> "",
   scope |-> None]

ExchangeResponses(n) ==
  { TokenResponse(200, n, rt, ei) : rt \in {0, REFRESH_TAG + n}, ei \in {NoExpiresIn, SHORT_EXPIRES_IN} }
    \cup { TokenResponse(400, 0, 0, NoExpiresIn) }

(* the two outcomes of the exchange, where the tokens are not used further *)
FlowExchangeResponses(n) ==
  { TokenResponse(200, n, REFRESH_TAG + n, SHORT_EXPIRES_IN), TokenResponse(400, 0, 0, NoExpiresIn) }

(* the exchange ends with tokens that do or do not include a refresh token *)
RevokeExchangeResponses(n) ==
  { TokenResponse(200, n, rt, NoExpiresIn) : rt \in {0, REFRESH_TAG + n} }

(* every shape of a successful token response: expires_in absent, 0, one  *)
(* second or SHORT_EXPIRES_IN, token_type absent or given, refresh_token   *)
(* absent or new                                                           *)
TokenTypes == {"", "Bearer", "DPoP"}

FullTokenResponses(n) ==
  { [TokenResponse(200, n, rt, ei) EXCEPT !.token_type = tt] :
      rt \in {0, REFRESH_TAG + n}, ei \in {NoExpiresIn, 0, 1, SHORT_EXPIRES_IN},
      tt \in TokenTypes }

RefreshResponses(n) ==
  { TokenResponse(200, n, rt, ei) : rt \in {0, REFRESH_TAG + n}, ei \in {NoExpiresIn, SHORT_EXPIRES_IN} }
    \cup { TokenResponse(st, 0, 0, NoExpiresIn) : st \in {200, 400, 401, 500} }

(* every way a refresh request fails: an error status, a success status   *)
(* without access_token, or no response at all (fetch throws, status 0)    *)
RefreshFailures == { TokenResponse(st, 0, 0, NoExpiresIn) : st \in {0, 200, 400, 401, 403, 500} }

(* the exchange ends with tokens that expire, with and without a refresh   *)
(* token, or is rejected                                                   *)
RefreshExchangeResponses(n) ==
  { TokenResponse(200, n, rt, SHORT_EXPIRES_IN) : rt \in {0, REFRESH_TAG + n} }
    \cup { TokenResponse(400, 0, 0, NoExpiresIn) }

(* the exchange ends with tokens that expire and can be refreshed *)
OverlapExchangeResponses(n) == { TokenResponse(200, n, REFRESH_TAG + n, SHORT_EXPIRES_IN) }

(* the refresh ends with new tokens, the refresh token rotated or not, or  *)
(* is rejected with 400 or 401                                             *)
OverlapRefreshResponses(n) ==
  { TokenResponse(200, n, rt, NoExpiresIn) : rt \in {0, REFRESH_TAG + n} }
    \cup { TokenResponse(st, 0, 0, NoExpiresIn) : st \in {400, 401} }

(* the token request of exchangeCodeForTokens returns; handleAuthCallback  *)
(* stores the tokens and returns them                                      *)
ExchangeResponseFrom(p, responses) ==
  /\ Quiet
  /\ call[p].pc = "await_exchange"
  /\ \E resp \in responses :
       LET c == call[p]
       IN  IF resp.status = 200 /\ resp.access_token # 0
             THEN LET tokens == TokensFromResponse(resp, NoTokens, now)
                  IN  Apply(p, Ret([W EXCEPT !.tokenStore =
                                       storeTokens(@, c.oauthState.resourceUri, tokens,
                                                   c.oauthState.issuer),
                                             !.nextToken = @ + 1],
                                   Done([c EXCEPT !.tokWrites = @ + 1,
                                                  !.storedTokens = tokens,
                                                  !.tokenResponse = resp],
                                        [NoResult EXCEPT !.tag = "tokens",
                                                         !.accessToken = tokens.accessToken])))
             ELSE Apply(p, Ret(W, Done(c, Error("Token exchange failed"))))
  /\ UNCHANGED opsStarted

(* tokenManager refreshTokens from the response on, for a response with    *)
(* status st: the token store afterwards                                   *)
MutRefreshKeepsTokensOnReject(ts, r, st) == ts

MutRefreshRemovesOnAnyError(ts, r, st) == removeTokens(ts, r)

RefreshRejected(ts, r, st) ==
  IF st = 400 \/ st = 401 THEN removeTokens(ts, r) ELSE ts

(* the token request of refreshTokens returns; getValidAccessToken catches *)
(* what refreshTokens throws and returns null                              *)
RefreshResponseFrom(p, responses) ==
  /\ Quiet
  /\ call[p].pc = "await_refresh"
  /\ \E resp \in responses :
       LET r == getCanonicalResourceUri(call[p].serverUrl)
           c == [call[p] EXCEPT !.tokenResponse = resp,
                                !.tokensBefore = tokenStore,
                                !.prevTokens = call[p].currentTokens,
                                !.prevIssuer = getTokenIssuer(tokenStore, r)]
       IN  IF resp.status = 200 /\ resp.access_token # 0
             THEN LET tokens == TokensFromResponse(resp, c.currentTokens, now)
                      issuer == getTokenIssuer(tokenStore, r)
                  IN  Apply(p, Run([W EXCEPT !.tokenStore =
                                       IF issuer # "" THEN storeTokens(@, r, tokens, issuer)
                                       ELSE @,
                                             !.nextToken = @ + 1],
                                   [c EXCEPT !.token = tokens.accessToken,
                                             !.refreshStatus = resp.status,
                                             !.refreshOk = TRUE,
                                             !.refreshedToken = tokens.accessToken,
                                             !.gvaReturned = tokens.accessToken,
                                             !.tokWrites = IF issuer # "" THEN @ + 1 ELSE @,
                                             !.storedTokens = IF issuer # "" THEN tokens ELSE @,
                                             !.pc = "afterToken"]))
           ELSE IF resp.status = 200
             THEN Apply(p, Run(W, [c EXCEPT !.token = 0, !.refreshStatus = resp.status,
                                            !.pc = "afterToken"]))
           ELSE Apply(p, Run([W EXCEPT !.tokenStore = RefreshRejected(@, r, resp.status)],
                             [c EXCEPT !.token = 0,
                                       !.refreshStatus = resp.status,
                                       !.tokWrites = IF RefreshRejected(tokenStore, r, resp.status)
                                                        # tokenStore THEN @ + 1 ELSE @,
                                       !.pc = "afterToken"]))
  /\ UNCHANGED opsStarted

RefreshResponse(p) == RefreshResponseFrom(p, RefreshResponses(nextToken))

(* how a revocation request ends: a success status, an error status, or a  *)
(* network failure (fetch throws)                                          *)
RevokeOutcomes == {"ok", "error", "network"}

(* tokenManager revokeTokens after its requests: the token store           *)
MutRevokeKeepsTokensOnFailure(ts, r, failed) == IF failed > 0 THEN ts ELSE removeTokens(ts, r)

RevokeFinish(ts, r, failed) == removeTokens(ts, r)

(* a revocation request of revokeTokens ends: the outcome is logged and    *)
(* otherwise ignored; the refresh token read at entry is revoked next, and *)
(* the local tokens are removed last                                       *)
RevokeResponse(p) ==
  /\ Quiet
  /\ call[p].pc \in {"await_revoke_access", "await_revoke_refresh"}
  /\ \E outcome \in RevokeOutcomes :
       LET c == call[p]
           r == getCanonicalResourceUri(c.serverUrl)
           c1 == [c EXCEPT !.revokeFailed = IF outcome = "ok" THEN @ ELSE @ + 1]
       IN  IF c.pc = "await_revoke_access" /\ c.currentTokens.refreshToken # 0
             THEN Apply(p, Ret(W, [c1 EXCEPT !.pc = "await_revoke_refresh",
                                             !.netSent = @ + 1, !.revokeSent = @ + 1]))
             ELSE Apply(p, Ret([W EXCEPT !.tokenStore = RevokeFinish(@, r, c1.revokeFailed)],
                               Done(c1, [NoResult EXCEPT !.tag = "void"])))
  /\ UNCHANGED opsStarted

(* ------------------------------------------------------- the pure helpers *)
(* a pure helper is called and nothing else changes *)
PureStep(v) ==
  /\ pure' = v
  /\ UNCHANGED <<now, world, pendingStates, statesFile, tokenStore, registeredClients,
                 resourceMetadataCache, authServerMetadataCache,
                 protectedResourceMetadataCache, call, returned, nextState, nextClient,
                 nextToken, issued, consumed, epoch, ticks, opsStarted, limit,
                 encryptionKey, connection, httpLog, clears>>

(* the server URLs of one resource: SERVER_URL with and without its query   *)
(* string, and with up to MaxSlashes trailing slashes                       *)
UrlVariants ==
  { [base |-> SERVER_URL.base, slashes |-> n, query |-> q] :
      n \in 0..MaxSlashes, q \in BOOLEAN }

(* a canonical URI read back as a URL: it has no query string *)
AsUrl(r) == [base |-> r.base, slashes |-> r.slashes, query |-> FALSE]

(* getCanonicalResourceUri(serverUrl), and the same of its result *)
CanonicalResourceUri ==
  \E u \in UrlVariants :
    LET canonical == getCanonicalResourceUri(u)
    IN  PureStep([NoPure EXCEPT !.fn = "getCanonicalResourceUri", !.url = u,
                                !.canonical = canonical,
                                !.again = getCanonicalResourceUri(AsUrl(canonical))])

(* the lists a server can advertise as code_challenge_methods_supported:   *)
(* absent, or up to MaxMethods of S256, plain and an unknown method        *)
MethodNames == {"S256", "plain", "S512"}

MethodLists ==
  {None} \cup { Some(l) : l \in UNION { [1..n -> MethodNames] : n \in 0..MaxMethods } }

SelectPkceMethod ==
  \E methods \in MethodLists :
    PureStep([NoPure EXCEPT !.fn = "selectPkceMethod", !.methods = methods,
                            !.method = selectPkceMethod(methods)])

(* what crypto.randomBytes(n) can return: bytes 0..255, here the sequences *)
(* a, a + b, a + 2b, ... modulo 256                                        *)
ByteStarts == {0, 65, 66, 255}
ByteSteps == {0, 1, 67}

RandomBytes(n) ==
  { [i \in 1..n |-> (a + (i - 1) * b) % 256] : a \in ByteStarts, b \in ByteSteps }

(* the lengths asked for: every length from below 43 to above 128 *)
VerifierLengths ==
  (MIN_VERIFIER_LENGTH - LengthMargin)..(MAX_VERIFIER_LENGTH + LengthMargin)

GenerateCodeVerifier ==
  \E length \in VerifierLengths :
    \E randomBytes \in RandomBytes(IF length > 0 THEN length ELSE 0) :
      PureStep([NoPure EXCEPT !.fn = "generateCodeVerifier", !.length = length,
                              !.randomBytes = randomBytes,
                              !.verifier = generateCodeVerifier(length, randomBytes)])

(* authFlow clearMetadataCache(): resourceMetadataCache.clear().  The      *)
(* caches of the discovery module are cleared by its own clearMetadataCache *)
(* only, which the orchestrator's does not call                            *)
ClearMetadataCache ==
  /\ Quiet
  /\ opsStarted < limit.ops
  /\ Started
  /\ resourceMetadataCache' = EmptyMap
  /\ clears' = clears + 1
  /\ call' = [p \in Procs |-> IF call[p].pc = "idle" THEN call[p]
                               ELSE [call[p] EXCEPT !.clearedDuring = TRUE]]
  /\ UNCHANGED <<now, world, pendingStates, statesFile, tokenStore, registeredClients,
                 authServerMetadataCache, protectedResourceMetadataCache,
                 returned, nextState, nextClient, nextToken, issued, consumed, epoch,
                 ticks, limit, encryptionKey, connection, httpLog, pure>>

(* ---------------------------------------------------------- the environment *)
(* time passes *)
TickBy(steps) ==
  /\ Quiet
  /\ ticks < limit.ticks
  /\ \E d \in steps : now' = now + d
  /\ ticks' = ticks + 1
  /\ UNCHANGED <<world, pendingStates, statesFile, tokenStore, registeredClients,
                 resourceMetadataCache, authServerMetadataCache,
                 protectedResourceMetadataCache, call, returned, nextState, nextClient,
                 nextToken, issued, consumed, epoch, opsStarted, limit,
                 encryptionKey, connection, httpLog, clears, pure>>

Tick == TickBy(TickSteps)

(* the process is restarted: every in-memory store starts empty, the calls *)
(* in flight are gone, and loadStatesFromFile reads the states file        *)
Restart ==
  /\ Quiet
  /\ epoch < limit.restarts
  /\ epoch' = epoch + 1
  /\ pendingStates' = LoadFilter(statesFile, now)
  /\ tokenStore' = EmptyMap
  /\ registeredClients' = << >>
  /\ resourceMetadataCache' = EmptyMap
  /\ authServerMetadataCache' = EmptyMap
  /\ protectedResourceMetadataCache' = EmptyMap
  /\ call' = [p \in Procs |-> IdleCall]
  /\ connection' = NoConnection
  /\ httpLog' = {}
  /\ UNCHANGED <<now, world, statesFile, returned, nextState, nextClient, nextToken,
                 issued, consumed, ticks, opsStarted, limit, encryptionKey, clears, pure>>

(* the caller takes the result of the call that has just finished *)
Return ==
  /\ returned.pc = "done"
  /\ returned.caller = "route"
  /\ returned' = IdleCall
  /\ UNCHANGED <<now, world, pendingStates, statesFile, tokenStore, registeredClients,
                 resourceMetadataCache, authServerMetadataCache,
                 protectedResourceMetadataCache, call, nextState, nextClient, nextToken,
                 issued, consumed, epoch, ticks, opsStarted, limit,
                 encryptionKey, connection, httpLog, clears, pure>>

(* the responses to the requests every operation can send *)
Discovery ==
  \/ \E p \in Procs : PRResponse(p)
  \/ \E p \in Procs : ASResponse(p)

(* the token lifecycle, one call at a time, with a pre-configured client *)
Next ==
  \/ \E p \in Procs : InitiateAuthFlowOn(p, {PreConfig})
  \/ \E p \in Procs : HandleAuthCallbackOn(p, {PreConfig})
  \/ \E p \in Procs : GetAccessToken(p)
  \/ \E p \in Procs : GetOAuthStatus(p)
  \/ \E p \in Procs : Handle401Response(p)
  \/ \E p \in Procs : Handle403Response(p)
  \/ Discovery
  \/ \E p \in Procs : ExchangeResponseFrom(p, ExchangeResponses(nextToken))
  \/ \E p \in Procs : RefreshResponse(p)
  \/ Return
  \/ Tick

Spec == Init /\ [][Next]_vars

(* the authorization flow from initiation to callback, two calls in flight, *)
(* clients pre-configured or registered dynamically                        *)
InitFlow ==
  InitIn({PlainWorld}, [ops |-> FlowOps, ticks |-> FlowTicks, restarts |-> 0, procs |-> 2])

NextFlow ==
  \/ \E p \in Procs : InitiateAuthFlow(p)
  \/ \E p \in Procs : HandleAuthCallback(p)
  \/ Discovery
  \/ \E p \in Procs : DCRResponseFrom(p, DcrResponses(nextClient))
  \/ \E p \in Procs : ExchangeResponseFrom(p, FlowExchangeResponses(nextToken))
  \/ Return
  \/ TickBy({STATE_TTL_MS + 1000})

SpecFlow == InitFlow /\ [][NextFlow]_vars

(* the authorization flow, calls one at a time, across process restarts    *)
InitRestart ==
  InitIn({PlainWorld},
         [ops |-> RestartOps, ticks |-> RestartTicks, restarts |-> MaxRestarts, procs |-> 1])

NextRestart ==
  \/ \E p \in Procs : InitiateAuthFlow(p)
  \/ \E p \in Procs : HandleAuthCallback(p)
  \/ Discovery
  \/ \E p \in Procs : DCRResponseFrom(p, RestartDcrResponses(nextClient))
  \/ \E p \in Procs : ExchangeResponseFrom(p, FlowExchangeResponses(nextToken))
  \/ Return
  \/ Tick
  \/ Restart

SpecRestart == InitRestart /\ [][NextRestart]_vars

(* scope resolution: every combination of explicit, challenged and         *)
(* advertised scopes, one call at a time                                   *)
InitScopes ==
  InitIn(Worlds, [ops |-> ScopeOps, ticks |-> 0, restarts |-> 0, procs |-> 1])

NextScopes ==
  \/ \E p \in Procs : InitiateAuthFlowOn(p, ScopeConfigs)
  \/ \E p \in Procs : Handle401ResponseOn(p, ScopeConfigs, ScopeHeaders)
  \/ \E p \in Procs : Handle403ResponseOn(p, ScopeConfigs, ScopeHeaders)
  \/ Discovery
  \/ Return

SpecScopes == InitScopes /\ [][NextScopes]_vars

(* revocation: tokens obtained through the authorization flow are revoked, *)
(* two calls in flight, the authorization server with and without a        *)
(* revocation endpoint                                                     *)
InitRevoke ==
  InitIn(RevokeWorlds, [ops |-> RevokeOps, ticks |-> 0, restarts |-> 0, procs |-> 2])

NextRevoke ==
  \/ \E p \in Procs : InitiateAuthFlowOn(p, {PreConfig})
  \/ \E p \in Procs : HandleAuthCallbackOn(p, {PreConfig})
  \/ \E p \in Procs : RevokeAuthorizationOn(p, Configs)
  \/ Discovery
  \/ \E p \in Procs : DCRResponseFrom(p, RestartDcrResponses(nextClient))
  \/ \E p \in Procs : ExchangeResponseFrom(p, RevokeExchangeResponses(nextToken))
  \/ \E p \in Procs : RevokeResponse(p)
  \/ Return

SpecRevoke == InitRevoke /\ [][NextRevoke]_vars

(* authorization-server discovery: every combination of answers of the    *)
(* well-known URLs, for issuers with and without a path, one call at a time *)
InitDiscovery ==
  InitIn(DiscoveryWorlds, [ops |-> DiscoveryOps, ticks |-> 0, restarts |-> 0, procs |-> 1])

NextDiscovery ==
  \/ \E p \in Procs : InitiateAuthFlowOn(p, {PreConfig})
  \/ \E p \in Procs : PRResponse(p)
  \/ \E p \in Procs : ASResponseFrom(p, DiscoveryAnswers)
  \/ Return

SpecDiscovery == InitDiscovery /\ [][NextDiscovery]_vars

(* the client registry called directly: registrations and lookups for two *)
(* issuers, two resources and two redirect URIs, two calls in flight,      *)
(* client secrets that expire                                              *)
InitRegistry ==
  InitIn({PlainWorld},
         [ops |-> RegistryOps, ticks |-> RegistryTicks, restarts |-> 0, procs |-> 2])

NextRegistry ==
  \/ \E p \in Procs : RegisterClient(p)
  \/ \E p \in Procs : GetRegisteredClient(p)
  \/ \E p \in Procs : DCRResponseFrom(p, RegistryDcrResponses(nextClient))
  \/ Return
  \/ Tick

SpecRegistry == InitRegistry /\ [][NextRegistry]_vars

(* the connection manager on top of the authorization flow, with and      *)
(* without an encryption key, one call at a time                           *)
InitConnection ==
  InitKeyed({PlainWorld},
            [ops |-> ConnectionOps, ticks |-> 0, restarts |-> 0, procs |-> 1],
            {NoKey, KEY})

NextConnection ==
  \/ \E p \in Procs : InitiateAuthFlow(p)
  \/ \E p \in Procs : HandleAuthCallback(p)
  \/ \E p \in Procs : Connect(p)
  \/ ConnectionResume
  \/ ListTools
  \/ ToolsListed
  \/ Discovery
  \/ \E p \in Procs : DCRResponseFrom(p, RestartDcrResponses(nextClient))
  \/ \E p \in Procs : ExchangeResponseFrom(p, RevokeExchangeResponses(nextToken))
  \/ Return

SpecConnection == InitConnection /\ [][NextConnection]_vars

(* connect against a server that accepts, answers 401 or fails at every    *)
(* attempt, one call at a time                                             *)
InitConnect ==
  InitIn({PlainWorld}, [ops |-> ConnectOps, ticks |-> 0, restarts |-> 0, procs |-> 1])

NextConnect ==
  \/ \E p \in Procs : InitiateAuthFlowOn(p, {PreConfig})
  \/ \E p \in Procs : HandleAuthCallbackOn(p, {PreConfig})
  \/ \E p \in Procs : ConnectCall(p)
  \/ ConnectContinue
  \/ ConnectAnswer
  \/ Discovery
  \/ \E p \in Procs : ExchangeResponseFrom(p, RevokeExchangeResponses(nextToken))
  \/ Return

SpecConnect == InitConnect /\ [][NextConnect]_vars

(* every await of a call in progress ends: the event loop runs each        *)
(* continuation and every request is answered or fails                     *)
ConnectProgress ==
  \/ ConnectContinue
  \/ ConnectAnswer
  \/ Discovery
  \/ \E p \in Procs : ExchangeResponseFrom(p, RevokeExchangeResponses(nextToken))
  \/ Return

SpecConnectFair == SpecConnect /\ WF_vars(ConnectProgress)

(* an authorization server that hosts a tenant under a path: the document  *)
(* at the well-known URLs of the tenant names the tenant's endpoints and   *)
(* declares as its issuer either the tenant or the server's root, and the  *)
(* well-known URLs of the root serve the root's document                   *)
TENANT == "https://auth.example.com/tenantA"

TenantDoc(declared) ==
  [ASDoc(world) EXCEPT !.issuer = declared,
                       !.authorization_endpoint = "https://auth.example.com/tenantA/authorize",
                       !.token_endpoint = "https://auth.example.com/tenantA/token",
                       !.registration_endpoint = "https://auth.example.com/tenantA/register"]

ServedDocs(issuer) ==
  IF TrimTrailingSlash(issuer) = TENANT THEN {TenantDoc(TENANT), TenantDoc(ISSUER)}
  ELSE {ASDoc(world)}

(* what discovery for an issuer is answered: every URL tried serves the    *)
(* document published for that issuer, or every URL fails                  *)
ServedAt(issuer) ==
  { [i \in 1..3 |-> AnswerDoc(d)] : d \in ServedDocs(issuer) }
    \cup { [i \in 1..3 |-> AnswerFail] }

(* authorization flows against such a server: the protected resource names *)
(* the root or the tenant, one call at a time, a pre-configured client     *)
InitTenant ==
  InitIn(DiscoveryWorlds, [ops |-> TenantOps, ticks |-> 0, restarts |-> 0, procs |-> 1])

NextTenant ==
  \/ \E p \in Procs : InitiateAuthFlowOn(p, {PreConfig})
  \/ \E p \in Procs : HandleAuthCallbackOn(p, {PreConfig})
  \/ \E p \in Procs : PRResponse(p)
  \/ \E p \in Procs : ASResponseFrom(p, ServedAt(call[p].issuer))
  \/ \E p \in Procs : ExchangeResponseFrom(p, FlowExchangeResponses(nextToken))
  \/ Return

SpecTenant == InitTenant /\ [][NextTenant]_vars

(* the documents an authorization server can publish that pass the check   *)
(* of the required fields: the authorization endpoint an absolute URL or a *)
(* path, the PKCE methods absent, S256, plain, or neither                  *)
EndpointDocs ==
  { [ASDoc(world) EXCEPT !.authorization_endpoint = e,
                         !.code_challenge_methods_supported = m] :
      e \in {ASDoc(world).authorization_endpoint, RELATIVE_ENDPOINT},
      m \in {None, Some(<<"S256">>), Some(<<"plain">>), Some(<<"RS256">>)} }

EndpointAnswers ==
  { [i \in 1..3 |-> AnswerDoc(d)] : d \in EndpointDocs } \cup { [i \in 1..3 |-> AnswerFail] }

(* initiations against every such document, with a pre-configured client   *)
(* or dynamic registration, one call at a time                             *)
InitEndpoint ==
  InitIn({PlainWorld}, [ops |-> EndpointOps, ticks |-> 0, restarts |-> 0, procs |-> 1])

NextEndpoint ==
  \/ \E p \in Procs : InitiateAuthFlowOn(p, Configs)
  \/ \E p \in Procs : PRResponse(p)
  \/ \E p \in Procs : ASResponseFrom(p, EndpointAnswers)
  \/ \E p \in Procs : DCRResponseFrom(p, DcrResponses(nextClient))
  \/ Return

SpecEndpoint == InitEndpoint /\ [][NextEndpoint]_vars

(* a second protected resource *)
OTHER_URL == [base |-> "https://files.example.com/mcp", slashes |-> 0, query |-> FALSE]

ResourceUrls == {SERVER_URL, OTHER_URL}

(* tokens of two resources and refreshes that fail in every way, one call  *)
(* at a time                                                               *)
InitRefresh ==
  InitIn({PlainWorld}, [ops |-> RefreshOps, ticks |-> RefreshTicks, restarts |-> 0, procs |-> 1])

NextRefresh ==
  \/ \E p \in Procs : InitiateAuthFlowAt(p, {PreConfig}, ResourceUrls)
  \/ \E p \in Procs : HandleAuthCallbackOn(p, {PreConfig})
  \/ \E p \in Procs : GetAccessTokenOn(p, {PreConfig}, ResourceUrls)
  \/ \E p \in Procs : RefreshTokensOn(p, ResourceUrls)
  \/ Discovery
  \/ \E p \in Procs : ExchangeResponseFrom(p, RefreshExchangeResponses(nextToken))
  \/ \E p \in Procs : RefreshResponseFrom(p, RefreshFailures)
  \/ Return
  \/ TickBy({SHORT_EXPIRES_IN * 1000})

SpecRefresh == InitRefresh /\ [][NextRefresh]_vars

(* the read helpers getAccessToken and getOAuthStatus, one call at a time, *)
(* with a client pre-configured or resolved by the registry, against       *)
(* discovery, registration and refresh failures                            *)
InitStatus ==
  InitIn({PlainWorld}, [ops |-> StatusOps, ticks |-> StatusTicks, restarts |-> 0, procs |-> 1])

NextStatus ==
  \/ \E p \in Procs : InitiateAuthFlowOn(p, {PreConfig})
  \/ \E p \in Procs : HandleAuthCallbackOn(p, {PreConfig})
  \/ \E p \in Procs : GetAccessTokenOn(p, Configs, {SERVER_URL})
  \/ \E p \in Procs : GetOAuthStatusOn(p, Configs)
  \/ Discovery
  \/ \E p \in Procs : DCRResponseFrom(p, DcrResponses(nextClient))
  \/ \E p \in Procs : ExchangeResponseFrom(p, FlowExchangeResponses(nextToken))
  \/ \E p \in Procs : RefreshResponse(p)
  \/ Return
  \/ TickBy({STATE_TTL_MS + 1000})

SpecStatus == InitStatus /\ [][NextStatus]_vars

(* the metadata caches over time: operations one at a time, the clock     *)
(* advancing by the cache TTL or just past it, the cache cleared           *)
InitCache ==
  InitIn({PlainWorld}, [ops |-> CacheOps, ticks |-> CacheTicks, restarts |-> 0, procs |-> 1])

NextCache ==
  \/ \E p \in Procs : InitiateAuthFlowOn(p, {PreConfig})
  \/ \E p \in Procs : GetAccessToken(p)
  \/ \E p \in Procs : Handle401ResponseOn(p, {PreConfig}, {NoHeader})
  \/ ClearMetadataCache
  \/ Discovery
  \/ Return
  \/ TickBy({CACHE_TTL_MS, CACHE_TTL_MS + 1000})

SpecCache == InitCache /\ [][NextCache]_vars

(* the tokens built from token responses of every shape, by the exchange  *)
(* and by the refresh, one call at a time                                  *)
InitTokens ==
  InitIn({PlainWorld}, [ops |-> TokenOps, ticks |-> TokenTicks, restarts |-> 0, procs |-> 1])

NextTokens ==
  \/ \E p \in Procs : InitiateAuthFlowOn(p, {PreConfig})
  \/ \E p \in Procs : HandleAuthCallbackOn(p, {PreConfig})
  \/ \E p \in Procs : GetAccessToken(p)
  \/ Discovery
  \/ \E p \in Procs : ExchangeResponseFrom(p, FullTokenResponses(nextToken))
  \/ \E p \in Procs : RefreshResponseFrom(p, FullTokenResponses(nextToken))
  \/ Return
  \/ TickBy({1000, DEFAULT_EXPIRES_MS})

SpecTokens == InitTokens /\ [][NextTokens]_vars

(* one resource addressed by the variants of its URL: a flow started with  *)
(* one variant, the token asked for with another, one call at a time       *)
InitUrls ==
  InitIn({PlainWorld}, [ops |-> UrlOps, ticks |-> 0, restarts |-> 0, procs |-> 1])

NextUrls ==
  \/ \E p \in Procs : InitiateAuthFlowAt(p, {PreConfig}, UrlVariants)
  \/ \E p \in Procs : HandleAuthCallbackOn(p, {PreConfig})
  \/ \E p \in Procs : GetAccessTokenOn(p, {PreConfig}, UrlVariants)
  \/ CanonicalResourceUri
  \/ Discovery
  \/ \E p \in Procs : ExchangeResponseFrom(p, FlowExchangeResponses(nextToken))
  \/ Return

SpecUrls == InitUrls /\ [][NextUrls]_vars

(* token-obtaining calls for one resource, two calls in flight *)
InitOverlap ==
  InitIn({PlainWorld},
         [ops |-> OverlapOps, ticks |-> OverlapTicks, restarts |-> 0, procs |-> 2])

NextOverlap ==
  \/ \E p \in Procs : InitiateAuthFlowOn(p, {PreConfig})
  \/ \E p \in Procs : HandleAuthCallbackOn(p, {PreConfig})
  \/ \E p \in Procs : GetAccessToken(p)
  \/ \E p \in Procs : GetOAuthStatus(p)
  \/ \E p \in Procs : Handle401ResponseOn(p, {PreConfig}, {NoHeader})
  \/ Discovery
  \/ \E p \in Procs : ExchangeResponseFrom(p, OverlapExchangeResponses(nextToken))
  \/ \E p \in Procs : RefreshResponseFrom(p, OverlapRefreshResponses(nextToken))
  \/ Return
  \/ TickBy({SHORT_EXPIRES_IN * 1000})

SpecOverlap == InitOverlap /\ [][NextOverlap]_vars

(* clients registered and removed, one call at a time *)
InitRemove ==
  InitIn({PlainWorld}, [ops |-> RemoveOps, ticks |-> 0, restarts |-> 0, procs |-> 1])

NextRemove ==
  \/ \E p \in Procs : RegisterClientWith(p, RemoveArgs)
  \/ \E p \in Procs : RemoveRegisteredClient(p)
  \/ \E p \in Procs : DCRResponseFrom(p, RegistryDcrResponses(nextClient))
  \/ Return

SpecRemove == InitRemove /\ [][NextRemove]_vars

(* initiations that register their client dynamically, two calls in flight *)
InitClients ==
  InitIn({PlainWorld}, [ops |-> ClientOps, ticks |-> 0, restarts |-> 0, procs |-> 2])

NextClients ==
  \/ \E p \in Procs : InitiateAuthFlowOn(p, {DcrConfig})
  \/ Discovery
  \/ \E p \in Procs : DCRResponseFrom(p, DcrResponses(nextClient))
  \/ Return

SpecClients == InitClients /\ [][NextClients]_vars

(* the pure helpers of pkce.ts, applied to every input of the bounded sets *)
InitPkce ==
  InitIn({PlainWorld}, [ops |-> 0, ticks |-> 0, restarts |-> 0, procs |-> 1])

NextPkce ==
  \/ SelectPkceMethod
  \/ GenerateCodeVerifier

SpecPkce == InitPkce /\ [][NextPkce]_vars

(* ================================================================ claims *)
(* the calls of handleAuthCallback in flight *)
CallbacksInFlight == {p \in Procs : call[p].op = "callback"}

(* C1: a pending OAuthState is consumed at most once.  For every state     *)
(* value at most one handleAuthCallback call gets past the state lookup,   *)
(* so at most one call holding that state can be waiting for discovery,    *)
(* registration or the token exchange; a call that presents a state        *)
(* another call already got past the lookup with ends at once with the     *)
(* invalid-or-expired-state error, whatever became of the first call.      *)
C1_ConsumedAtMostOnce ==
  /\ \A s \in StateIds : consumed[s] <= 1
  /\ \A p, q \in CallbacksInFlight : call[p].state = call[q].state => p = q
  /\ \A p \in CallbacksInFlight : call[p].priorUses = 0 /\ call[p].exchangeSent <= 1
  /\ (returned.op = "callback" /\ returned.priorUses >= 1) =>
        /\ returned.result = Error(INVALID_STATE)
        /\ ~returned.foundState
        /\ returned.netSent = 0

(* a second callback has failed while the first one, with the same state,  *)
(* is still waiting for the token endpoint                                 *)
C1_Witness ==
  /\ returned.op = "callback"
  /\ returned.priorUses = 1
  /\ returned.result = Error(INVALID_STATE)
  /\ \E p \in Procs : /\ call[p].op = "callback"
                      /\ call[p].state = returned.state
                      /\ call[p].pc = "await_exchange"

(* every call: those in flight and the one that has just returned *)
AllCalls == {call[p] : p \in Procs} \cup {returned}

(* what handleAuthCallback can throw between the expiry check and the      *)
(* token request                                                           *)
PreExchangeErrors ==
  { Error("Failed to discover Authorization Server Metadata"),
    Error("DCR failed"),
    Error("Authorization server does not support Dynamic Client Registration") }

(* C2: handleAuthCallback accepts a state it found whose age (now minus    *)
(* createdAt) is at most STATE_TTL_MS and rejects one whose age is more.   *)
(* A rejected call throws the expired-state error having sent no request   *)
(* at all; an accepted call never throws that error and goes on to the     *)
(* token request unless discovery or client registration fails first.      *)
C2_AcceptsWithinTtl ==
  \A c \in AllCalls :
    (c.op = "callback" /\ c.foundState) =>
      /\ c.ageAtEntry > STATE_TTL_MS =>
            /\ c.pc = "done"
            /\ c.result = Error(EXPIRED_STATE)
            /\ c.exchangeSent = 0
            /\ c.netSent = 0
      /\ c.ageAtEntry <= STATE_TTL_MS =>
            /\ c.result # Error(EXPIRED_STATE)
            /\ c.pc = "done" => (c.exchangeSent = 1 \/ c.result \in PreExchangeErrors)
            /\ c.pc = "await_exchange" => c.exchangeSent = 1

(* a callback 10 min 1 s after the state was created has been rejected     *)
(* without a token request                                                 *)
C2_Witness ==
  /\ returned.op = "callback"
  /\ returned.foundState
  /\ returned.ageAtEntry = STATE_TTL_MS + 1000
  /\ returned.result = Error(EXPIRED_STATE)
  /\ returned.exchangeSent = 0

(* C3: the client identity handleAuthCallback sends to the token endpoint  *)
(* is the one of the initiation: for every callback that has sent its      *)
(* token request, the client_id (and secret) of the request equal the      *)
(* client_id initiateAuthFlow put in the authorization URL of that state   *)
(* (and the secret it resolved with it).                                   *)
C3_SameClientAtExchange ==
  \A c \in AllCalls :
    (c.op = "callback" /\ c.exchangeSent = 1) =>
      /\ c.exClientId = issued[c.state].url.client_id
      /\ c.exClientSecret = issued[c.state].clientSecret

(* after a restart emptied the registry, a callback whose config names no  *)
(* client has registered a new client and sent the token request with it   *)
C3_Witness ==
  \E p \in Procs :
    /\ call[p].op = "callback"
    /\ call[p].pc = "await_exchange"
    /\ call[p].afterRestart
    /\ call[p].config = DcrConfig
    /\ issued[call[p].state].url.client_id \notin {0, PRECONFIGURED_CLIENT}
    /\ call[p].exClientId # issued[call[p].state].url.client_id

(* the states initiateAuthFlow created that no callback has taken and that *)
(* are at most STATE_TTL_MS old                                            *)
LiveStates ==
  {s \in DOMAIN issued : consumed[s] = 0 /\ now - issued[s].createdAt <= STATE_TTL_MS}

(* C4: a pending authorization survives a process restart.  A state that   *)
(* initiateAuthFlow persisted stays pending, in memory and in the states   *)
(* file, across restarts for as long as its age is at most STATE_TTL_MS    *)
(* and no callback has taken it; a callback that presents it after the     *)
(* restart within that time finds it, passes the expiry check, and when    *)
(* the token endpoint issues tokens they are stored for the state's        *)
(* resource.  A restart loads exactly the persisted states whose age is at *)
(* most STATE_TTL_MS.                                                      *)
C4_StateSurvives ==
  /\ \A s \in LiveStates :
       /\ s \in DOMAIN pendingStates
       /\ s \in DOMAIN statesFile
       /\ pendingStates[s].resourceUri = issued[s].resourceUri
       /\ pendingStates[s].createdAt = issued[s].createdAt
  /\ \A c \in AllCalls :
       (c.op = "callback" /\ c.afterRestart /\ c.priorUses = 0
          /\ c.ageAtEntry <= STATE_TTL_MS) =>
         /\ c.foundState
         /\ c.result # Error(EXPIRED_STATE)
         /\ c.result # Error(INVALID_STATE)
         /\ c.result.tag = "tokens" =>
               /\ issued[c.state].resourceUri \in DOMAIN tokenStore
               /\ tokenStore[issued[c.state].resourceUri].accessToken = c.result.accessToken

C4_LoadsWithinTtl ==
  epoch' # epoch =>
    /\ DOMAIN pendingStates' =
         {s \in DOMAIN statesFile : now - statesFile[s].createdAt <= STATE_TTL_MS}
    /\ \A s \in DOMAIN pendingStates' : pendingStates'[s] = statesFile[s]

(* C4: both parts, the invariant over the states and the calls, and the    *)
(* step that loads the states file at start-up                             *)
C4_SurvivesRestart == []C4_StateSurvives /\ [][C4_LoadsWithinTtl]_vars

(* a callback 9 min 59 s after the initiation, with a restart in between,  *)
(* has completed: the tokens are stored for the state's resource           *)
C4_Witness ==
  /\ returned.op = "callback"
  /\ returned.afterRestart
  /\ returned.ageAtEntry = STATE_TTL_MS - 1000
  /\ returned.result.tag = "tokens"
  /\ issued[returned.state].resourceUri \in DOMAIN tokenStore
  /\ tokenStore[issued[returned.state].resourceUri].accessToken = returned.result.accessToken

(* the resource every token operation of the model works on *)
RES == getCanonicalResourceUri(SERVER_URL)

(* C5: handle401Response returns null only when the tokens were refreshed  *)
(* during the call: a null result implies that a refresh request of this   *)
(* call succeeded and that the access token now stored for the resource is *)
(* the newly issued one; in every other case the call returns the URL and  *)
(* state of a flow it has just initiated, or throws.                       *)
C5_NullOnlyAfterRefresh ==
  returned.op = "handle401" =>
    /\ returned.result.tag \in {"null", "url", "error"}
    /\ returned.result.tag = "null" =>
          /\ returned.refreshSent = 1
          /\ returned.refreshOk
          /\ getTokens(tokenStore, RES).accessToken = returned.refreshedToken
    /\ returned.result.tag = "url" => returned.created = 1

(* handle401Response has returned null without sending a refresh request:  *)
(* the stored token was still valid by the clock                           *)
C5_Witness ==
  /\ returned.op = "handle401"
  /\ returned.result.tag = "null"
  /\ returned.refreshSent = 0
  /\ returned.validAtCheck
  /\ getTokens(tokenStore, RES).accessToken = returned.storedAtCheck

(* a step taken while a handle403Response call is running or returning *)
Handle403Step ==
  /\ epoch' = epoch
  /\ \/ \E p \in Procs : call[p].op = "handle403" \/ call'[p].op = "handle403"
     \/ returned'.op = "handle403"

C6_NoRefreshState ==
  /\ \A c \in AllCalls :
       c.op = "handle403" =>
         /\ c.refreshSent = 0
         /\ ~c.gvaEntered
         /\ c.pc # "await_refresh"
         /\ c.tokWrites = 0
  /\ (returned.op = "handle403" /\ returned.result.tag = "url") =>
       LET st == returned.result.state
       IN  /\ returned.created = 1
           /\ st \in DOMAIN pendingStates
           /\ pendingStates[st].state = st
           /\ returned.header.scope.def =>
                 /\ pendingStates[st].scopes = Some(returned.header.scope.val)
                 /\ returned.result.url.scope = Some(returned.header.scope.val)
           /\ returned.result.url = issued[st].url
           /\ returned.result.url.state = st

C6_FrameStep ==
  Handle403Step =>
    /\ tokenStore' = tokenStore
    /\ (DOMAIN pendingStates') \ (DOMAIN pendingStates) =
         IF returned.op = "idle" /\ returned'.op = "handle403"
              /\ returned'.result.tag = "url"
           THEN {returned'.result.state}
           ELSE {}

(* C6: handle403Response never attempts a silent refresh.  It never enters *)
(* getValidAccessToken, sends no refresh request and no step of it changes *)
(* the token store; when it succeeds it has added exactly one pending      *)
(* OAuthState, whose scopes are the scopes of the challenge, and returns   *)
(* the authorization URL built for that state.                             *)
C6_Handle403NoRefresh == []C6_NoRefreshState /\ [][C6_FrameStep]_vars

(* handle403Response has returned a URL with the challenge's scopes while  *)
(* the stored tokens were expired and refreshable                          *)
C6_Witness ==
  /\ returned.op = "handle403"
  /\ returned.result.tag = "url"
  /\ returned.header.scope = Some(<<"chal">>)
  /\ pendingStates[returned.result.state].scopes = Some(<<"chal">>)
  /\ canRefresh(tokenStore, RES)
  /\ ~hasValidTokens(tokenStore, RES, now)

(* the calls whose getValidAccessToken has returned *)
GvaReturned == {c \in AllCalls : c.gvaEntered /\ c.pc # "await_refresh"}

(* C9: when the token endpoint answers a refresh request with HTTP 400 or  *)
(* 401, refreshTokens deletes the stored tokens of the resource before it  *)
(* throws: when that call returns, getTokens gives null for the resource   *)
(* and the call got no token; and a getValidAccessToken that finds no      *)
(* tokens stored returns null without any network request.                 *)
C9_RejectedRefreshClearsTokens ==
  /\ \A c \in GvaReturned :
       c.refreshStatus \in {400, 401} =>
         /\ c.gvaReturned = 0
         /\ ~c.refreshOk
         /\ c.tokWrites = 1
  /\ (returned.op = "getAccessToken" /\ returned.refreshStatus \in {400, 401}) =>
       /\ RES \notin DOMAIN tokenStore
       /\ getTokens(tokenStore, RES) = NoTokens
       /\ returned.result.tag = "null"
  /\ \A c \in GvaReturned :
       c.storedAtCheck = 0 => (c.gvaNet = 0 /\ c.gvaReturned = 0 /\ c.refreshSent = 0)

(* a getAccessToken whose refresh request was answered with 401 has        *)
(* returned null and the tokens it tried to refresh are gone               *)
C9_Witness ==
  /\ returned.op = "getAccessToken"
  /\ returned.refreshStatus = 401
  /\ returned.storedAtCheck # 0
  /\ returned.result.tag = "null"
  /\ getTokens(tokenStore, RES) = NoTokens

(* C10: getValidAccessToken returns the stored access token without any    *)
(* network request when the tokens are valid; otherwise it sends at most   *)
(* one refresh request, returns the new access token when that refresh     *)
(* succeeds, and returns null, without throwing, when no refresh token is  *)
(* stored or the refresh fails.                                            *)
C10_GetValidAccessToken ==
  /\ \A c \in AllCalls : c.refreshSent <= 1 /\ c.gvaNet = c.refreshSent
  /\ \A c \in AllCalls :
       (c.gvaEntered /\ c.validAtCheck) => (c.gvaNet = 0 /\ c.pc # "await_refresh")
  /\ \A c \in GvaReturned :
       /\ c.validAtCheck => (c.gvaReturned = c.storedAtCheck /\ c.storedAtCheck # 0)
       /\ (~c.validAtCheck /\ c.refreshOk) =>
            (c.refreshSent = 1 /\ c.gvaReturned = c.refreshedToken /\ c.refreshedToken # 0)
       /\ (~c.validAtCheck /\ ~c.refreshOk) => c.gvaReturned = 0
       /\ c.refreshSent = 0 => ~c.refreshOk
  /\ (returned.op = "getAccessToken" /\ returned.gvaEntered) =>
       /\ returned.result.tag # "error"
       /\ returned.result.tag = "token" =>
            (returned.gvaReturned # 0 /\ returned.result.accessToken = returned.gvaReturned)
       /\ returned.result.tag = "null" => returned.gvaReturned = 0

(* a getAccessToken that found expired tokens has refreshed them once and  *)
(* returned the new access token, which is now the stored one              *)
C10_Witness ==
  /\ returned.op = "getAccessToken"
  /\ ~returned.validAtCheck
  /\ returned.refreshSent = 1
  /\ returned.refreshOk
  /\ returned.result.tag = "token"
  /\ returned.result.accessToken = returned.refreshedToken
  /\ returned.refreshedToken # returned.storedAtCheck
  /\ getTokens(tokenStore, RES).accessToken = returned.refreshedToken

(* the call that has just returned an authorization URL, its inputs and    *)
(* the OAuthState it stored                                                *)
UrlReturned == returned.result.tag = "url"
Challenge == IF returned.op \in {"handle401", "handle403"} THEN returned.header.scope ELSE None
Explicit == returned.config.scopes
Advertised == world.prScopes
StoredScopes == pendingStates[returned.result.state].scopes

(* C7 as stated: explicit request scopes (config.scopes) win over          *)
(* challengedScopes, which win over the protected resource's               *)
(* scopes_supported.                                                       *)
C7_ExplicitOverChallenge ==
  UrlReturned =>
    /\ Explicit.def => StoredScopes = Explicit
    /\ (~Explicit.def /\ Challenge.def) => StoredScopes = Challenge
    /\ (~Explicit.def /\ ~Challenge.def /\ Advertised.def) => StoredScopes = Advertised

(* C7, amended: the scopes initiateAuthFlow requests follow the priority   *)
(* challengedScopes over config.scopes over the protected resource's       *)
(* scopes_supported: the scopes of the challenge are used even when        *)
(* config.scopes is given; config.scopes (an empty list included) is used  *)
(* when there is no challenge; scopes_supported only when neither is given; *)
(* and the scopes stay undefined when nothing is given.                    *)
C7_ChallengeOverExplicit ==
  UrlReturned =>
    /\ Challenge.def => StoredScopes = Challenge
    /\ (~Challenge.def /\ Explicit.def) => StoredScopes = Explicit
    /\ (~Challenge.def /\ ~Explicit.def /\ Advertised.def) => StoredScopes = Advertised
    /\ (~Challenge.def /\ ~Explicit.def /\ ~Advertised.def) => StoredScopes = None

(* a flow was initiated with explicit scopes and a challenge, and the      *)
(* stored state asks for the scopes of the challenge                       *)
C7_Witness ==
  /\ UrlReturned
  /\ returned.op = "handle403"
  /\ Explicit = Some(<<"cfg">>)
  /\ Challenge = Some(<<"chal">>)
  /\ Advertised = Some(<<"pr">>)
  /\ StoredScopes = Some(<<"chal">>)
  /\ returned.result.url.scope = Some(<<"chal">>)

(* no explicit scopes, no challenge scopes, none advertised by the         *)
(* protected resource                                                      *)
NoScopesGiven == UrlReturned /\ ~Explicit.def /\ ~Challenge.def /\ ~Advertised.def

(* C8 as stated: with no scopes given the authorization URL carries no     *)
(* scope parameter.                                                        *)
C8_NoScopeParameter ==
  NoScopesGiven => returned.result.url.scope = None

(* C8, amended: with no explicit scopes, no challenge scopes and no scopes *)
(* advertised by the protected resource, the stored OAuthState has no      *)
(* scopes and the authorization URL carries the authorization server's     *)
(* scopes_supported when that list is present and non-empty; it carries    *)
(* no scope parameter only when the authorization server advertises none.  *)
C8_ScopeFallsBackToAuthServer ==
  NoScopesGiven =>
    /\ StoredScopes = None
    /\ returned.result.url.scope =
         IF world.asScopes.def /\ Len(world.asScopes.val) > 0 THEN world.asScopes ELSE None

(* with no scopes given, the URL asks for every scope the authorization    *)
(* server supports                                                         *)
C8_Witness ==
  /\ NoScopesGiven
  /\ returned.op = "initiate"
  /\ world.asScopes = Some(<<"as">>)
  /\ returned.result.url.scope = Some(<<"as">>)

(* the call of revokeAuthorization that has just returned *)
RevokeReturned == returned.pc = "done" /\ returned.op = "revoke"

(* C11: when revokeTokens returns for a resource that had tokens, no       *)
(* tokens are stored for that resource, whatever the revocation requests   *)
(* ended with (no endpoint, success, error status, network failure); with  *)
(* no revocation endpoint advertised no request was sent at all, and with  *)
(* one the access token and then the refresh token, if any, were sent      *)
C11_RevokeRemovesTokens ==
  (RevokeReturned /\ returned.revokeEntered /\ returned.hadTokens) =>
    /\ RES \notin DOMAIN tokenStore
    /\ (~returned.hadEndpoint) => returned.revokeSent = 0
    /\ returned.hadEndpoint =>
         returned.revokeSent = (IF returned.hadRefresh THEN 2 ELSE 1)

(* both revocation requests of a call were sent and failed, and the call   *)
(* has returned                                                            *)
C11_Witness ==
  /\ RevokeReturned
  /\ returned.hadTokens
  /\ returned.hadEndpoint
  /\ returned.revokeSent = 2
  /\ returned.revokeFailed = 2
  /\ RES \notin DOMAIN tokenStore

(* C12: revokeAuthorization never fails because of discovery or client     *)
(* resolution: whatever is thrown inside it is caught, the local tokens    *)
(* are deleted and the call returns normally; after it returns the token   *)
(* store holds no tokens for the canonical resource URI                    *)
C12_RevokeAuthorizationNeverFails ==
  RevokeReturned =>
    /\ returned.result.tag = "void"
    /\ RES \notin DOMAIN tokenStore

(* a call that began with tokens stored could not resolve its client, and  *)
(* has returned                                                            *)
C12_Witness ==
  /\ RevokeReturned
  /\ returned.caught
  /\ returned.storedAtCheck # 0
  /\ returned.result.tag = "void"
  /\ RES \notin DOMAIN tokenStore

(* milliseconds from now to the expiry of the tokens stored for RES *)
TimeLeft == tokenStore[RES].expiresAt - now

(* a getOAuthStatus call has just returned without having tried a refresh  *)
StatusReturned ==
  returned.pc = "done" /\ returned.op = "getOAuthStatus" /\ returned.refreshSent = 0

(* C13: hasValidTokens is true exactly when tokens are stored for the      *)
(* resource and expiresAt is more than 30 seconds after the current time:  *)
(* true 31 s before expiresAt, false 30 s and 29 s before it, false with   *)
(* no tokens stored; getOAuthStatus reports it when it needs no refresh    *)
C13_HasValidTokensBuffer ==
  /\ hasValidTokens(tokenStore, RES, now) <=>
       (RES \in DOMAIN tokenStore /\ TimeLeft > 30000)
  /\ (RES \in DOMAIN tokenStore /\ TimeLeft = 31000) => hasValidTokens(tokenStore, RES, now)
  /\ (RES \in DOMAIN tokenStore /\ TimeLeft \in {30000, 29000}) =>
       ~hasValidTokens(tokenStore, RES, now)
  /\ RES \notin DOMAIN tokenStore => ~hasValidTokens(tokenStore, RES, now)
  /\ StatusReturned =>
       (returned.result.authenticated <=>
          (RES \in DOMAIN tokenStore /\ TimeLeft > 30000))

(* getOAuthStatus has reported stored tokens that expire in exactly 30 s   *)
(* as not valid                                                            *)
C13_Witness ==
  /\ StatusReturned
  /\ RES \in DOMAIN tokenStore
  /\ TimeLeft = 30000
  /\ ~returned.result.authenticated

(* the call that has just returned ran discoverAuthServerMetadata up to    *)
(* its fetches; what the URLs answered, in try order                       *)
DiscoveryReturned == returned.pc = "done" /\ returned.asAnswers # << >>
Answers == returned.asAnswers

(* the URLs that answered a structurally valid document, and those whose   *)
(* document names the requested issuer up to one trailing slash            *)
ValidUrls ==
  {i \in 1..Len(Answers) :
     /\ Answers[i].ok
     /\ Answers[i].doc.issuer # ""
     /\ Answers[i].doc.authorization_endpoint # ""
     /\ Answers[i].doc.token_endpoint # ""}
MatchingUrls ==
  {i \in ValidUrls :
     TrimTrailingSlash(Answers[i].doc.issuer) = TrimTrailingSlash(returned.asRequested)}
First(S) == CHOOSE i \in S : \A j \in S : i <= j

(* C14: discoverAuthServerMetadata tries the well-known URLs in order and  *)
(* stops at the first valid document whose issuer equals the requested one *)
(* (one trailing slash trimmed), also after an earlier valid document with *)
(* another issuer; with no matching document it returns the first valid    *)
(* mismatched one; with no valid document it fails and caches nothing      *)
C14_DiscoveryOrder ==
  DiscoveryReturned =>
    /\ MatchingUrls # {} =>
         /\ returned.asResult = Answers[First(MatchingUrls)].doc
         /\ returned.asFetches = First(MatchingUrls)
         /\ authServerMetadataCache[returned.asRequested].data = returned.asResult
    /\ (MatchingUrls = {} /\ ValidUrls # {}) =>
         /\ returned.asResult = Answers[First(ValidUrls)].doc
         /\ returned.asFetches = Len(Answers)
         /\ authServerMetadataCache[returned.asRequested].data = returned.asResult
    /\ ValidUrls = {} =>
         /\ returned.result.tag = "error"
         /\ returned.asFetches = Len(Answers)
         /\ returned.asRequested \notin DOMAIN authServerMetadataCache

(* the matching document came after a valid document with another issuer,  *)
(* and names the requested issuer with a different trailing slash          *)
C14_Witness ==
  /\ DiscoveryReturned
  /\ MatchingUrls # {}
  /\ \E i \in ValidUrls : i < First(MatchingUrls)
  /\ returned.asResult.issuer # returned.asRequested
  /\ returned.asResult = Answers[First(MatchingUrls)].doc
  /\ returned.result.tag = "url"

(* a direct call of getRegisteredClient has just returned; the entries of  *)
(* the registry it was called on, by their relation to its arguments       *)
LookupReturned == returned.pc = "done" /\ returned.op = "getRegisteredClient"
EntriesBefore == {returned.regBefore[i] : i \in 1..Len(returned.regBefore)}
SecretLive(e) ==
  e.client.clientSecretExpiresAt = 0 \/ e.client.clientSecretExpiresAt * 1000 >= now
OfPair(e) ==
  e.key.issuer = returned.asRequested /\ e.key.resourceUri = returned.resourceUri
ExactEntries ==
  {e \in EntriesBefore : OfPair(e) /\ e.key.redirectUri = returned.config.redirectUri}
LivePairEntries == {e \in EntriesBefore : OfPair(e) /\ SecretLive(e)}

(* C15: getRegisteredClient returns the client registered under the exact  *)
(* (issuer, resourceUri, redirectUri) when it has not expired, otherwise a *)
(* non-expired client of the same (issuer, resourceUri) registered under   *)
(* another redirect URI, never a client of another issuer or of another    *)
(* resource URI, and null when the pair has no client                      *)
C15_LookupReturnsPairClient ==
  LookupReturned =>
    /\ \A e \in ExactEntries : SecretLive(e) => returned.gotClient = e.client
    /\ LivePairEntries # {} =>
         \E e \in LivePairEntries : returned.gotClient = e.client
    /\ returned.result.tag = "client" =>
         /\ returned.gotClient.issuer = returned.asRequested
         /\ returned.gotClient.resourceUri = returned.resourceUri
    /\ LivePairEntries = {} => returned.result.tag = "null"

(* a lookup has returned the client registered for another resource URI    *)
C15_Witness ==
  /\ LookupReturned
  /\ returned.result.tag = "client"
  /\ returned.gotClient.issuer = returned.asRequested
  /\ returned.gotClient.resourceUri # returned.resourceUri

(* a direct call of registerClient has just returned a client *)
RegisterReturned ==
  returned.pc = "done" /\ returned.op = "registerClient" /\ returned.result.tag = "client"
EntriesNow == {registeredClients[i] : i \in 1..Len(registeredClients)}

(* C16: registerClient returns a cached client without a network request   *)
(* only when one is cached for the exact redirect URI; otherwise it sends  *)
(* the registration request and stores the new client under that redirect  *)
(* URI                                                                     *)
C16_CachedOnlyForExactRedirect ==
  RegisterReturned =>
    /\ returned.netSent = 0 =>
         \E e \in ExactEntries : SecretLive(e) /\ returned.gotClient = e.client
    /\ returned.netSent > 0 =>
         /\ returned.netSent = 1
         /\ \E e \in EntriesNow :
              /\ e.key = getClientCacheKey(returned.asRequested, returned.resourceUri,
                                           returned.config.redirectUri)
              /\ e.client = returned.gotClient

(* registerClient has returned, without a request, the client registered   *)
(* for the same resource under another redirect URI                        *)
C16_Witness ==
  /\ RegisterReturned
  /\ returned.netSent = 0
  /\ ExactEntries = {}
  /\ \E e \in LivePairEntries :
       e.client = returned.gotClient /\ e.key.redirectUri # returned.config.redirectUri

(* a direct call of registerClient has just returned or thrown after a     *)
(* registration response without client_id or with a non-success status    *)
BadDcrResponse(c) ==
  /\ c.pc = "done"
  /\ c.op = "registerClient"
  /\ c.netSent = 1
  /\ (~c.dcrResponse.ok) \/ c.dcrResponse.client_id = 0
EntriesAfterLookup ==
  {returned.regAfterLookup[i] : i \in 1..Len(returned.regAfterLookup)}

(* C17 as stated: such a call fails and the registry is as it was when the *)
(* call began                                                              *)
C17_FailedRegistrationKeepsRegistry ==
  BadDcrResponse(returned) =>
    /\ returned.result.tag = "error"
    /\ returned.regAfterLookup = returned.regBefore

(* C17: when the registration response lacks client_id or has a            *)
(* non-success status, registerClient fails and stores nothing: the step   *)
(* that takes the response leaves the registry as it is, and before the    *)
(* request the call removed nothing but expired entries                    *)
C17_FailedRegistrationStoresNothing ==
  /\ [](BadDcrResponse(returned) =>
         /\ returned.result.tag = "error"
         /\ EntriesAfterLookup \subseteq EntriesBefore
         /\ \A e \in EntriesBefore \ EntriesAfterLookup : ~SecretLive(e))
  /\ [][(Quiet /\ BadDcrResponse(returned')) => registeredClients' = registeredClients]_vars

(* a registration failed after its lookup had evicted an expired client    *)
C17_Witness ==
  /\ BadDcrResponse(returned)
  /\ returned.result.tag = "error"
  /\ returned.dcrResponse.ok
  /\ returned.regAfterLookup # returned.regBefore
  /\ registeredClients = returned.regAfterLookup

(* the secret of entry e is set and its expiry is before the current time  *)
SecretExpired(e) ==
  e.client.clientSecretExpiresAt # 0 /\ e.client.clientSecretExpiresAt * 1000 < now

(* C18: a client whose clientSecretExpiresAt is set and before the current *)
(* time is never returned by getRegisteredClient; the expired entries the  *)
(* lookup meets, under the exact key and in the fallback scan, are deleted *)
(* and treated as not found; an entry without expiry, or not yet expired,  *)
(* is never evicted                                                        *)
C18_ExpiredClientsEvicted ==
  LookupReturned =>
    /\ returned.result.tag = "client" =>
         ~(returned.gotClient.clientSecretExpiresAt # 0
            /\ returned.gotClient.clientSecretExpiresAt * 1000 < now)
    /\ \A e \in ExactEntries : SecretExpired(e) => e \notin EntriesNow
    /\ returned.result.tag = "null" =>
         \A e \in EntriesBefore : (OfPair(e) /\ SecretExpired(e)) => e \notin EntriesNow
    /\ EntriesNow \subseteq EntriesBefore
    /\ \A e \in EntriesBefore \ EntriesNow : SecretExpired(e)

(* a lookup met an expired client under the exact key, deleted it, and     *)
(* returned another client found by the fallback scan                      *)
C18_Witness ==
  /\ LookupReturned
  /\ \E e \in ExactEntries : SecretExpired(e) /\ e \notin EntriesNow
  /\ returned.result.tag = "client"
  /\ returned.gotClient \in {e.client : e \in EntriesNow}

(* the plaintext access and refresh tokens the token store holds *)
StoredTokenValues ==
  UNION { {getTokens(tokenStore, r).accessToken, getTokens(tokenStore, r).refreshToken}
            : r \in DOMAIN tokenStore } \ {0}

(* the plaintext client secrets: of the registry and of the configuration *)
ClientSecretValues ==
  ({ PlainClient(registeredClients[i].client).clientSecret
       : i \in 1..Len(registeredClients) } \cup {PRECONFIGURED_SECRET}) \ {0}

(* C19: with an encryption key configured, no entry emitted through        *)
(* httpLogger (request, response, notification or error, with its http     *)
(* request headers and its params) contains a stored access token, refresh *)
(* token or client secret                                                  *)
C19_NoSecretInLog ==
  encryptionKey # NoKey =>
    \A e \in httpLog :
      /\ e.authorization \notin StoredTokenValues
      /\ e.clientSecret \notin ClientSecretValues

(* with a key configured and the token store holding ciphertext, the       *)
(* tools/list request entry carries the plaintext access token in its      *)
(* Authorization header, and connection:start carried the client secret    *)
C19_Witness ==
  /\ encryptionKey = KEY
  /\ \E e \in httpLog, r \in DOMAIN tokenStore :
       /\ e.direction = "request"
       /\ e.method = "tools/list"
       /\ e.authorization # 0
       /\ e.authorization = getTokens(tokenStore, r).accessToken
       /\ tokenStore[r].accessToken # e.authorization
  /\ \E e \in httpLog : e.method = "connection:start" /\ e.clientSecret = PRECONFIGURED_SECRET

(* a value in the format encrypt produces (iv:authTag:data) *)
IsCiphertext(v) == v >= CIPHER_BASE

(* handleAuthCallback has returned after storing tokens *)
TokensStored == returned.pc = "done" /\ returned.storedTokens # NoTokens

(* a finished call registered a client dynamically *)
ClientStored == returned.pc = "done" /\ DcrAccepted(returned.dcrResponse)

(* C20: with an encryption key configured, the token store holds           *)
(* ciphertext for the access and the refresh token and the client registry *)
(* holds ciphertext for the client secret, never the plaintext value;      *)
(* getTokens returns exactly the access token, refresh token, token type,  *)
(* expiresAt and scope that were stored, and getRegisteredClient returns   *)
(* the client with the plaintext secret that was stored                    *)
C20_EncryptedAtRestRoundTrip ==
  encryptionKey # NoKey =>
    /\ \A r \in DOMAIN tokenStore :
         /\ IsCiphertext(tokenStore[r].accessToken)
         /\ tokenStore[r].refreshToken # 0 => IsCiphertext(tokenStore[r].refreshToken)
    /\ \A i \in 1..Len(registeredClients) :
         registeredClients[i].client.clientSecret # 0 =>
           IsCiphertext(registeredClients[i].client.clientSecret)
    /\ TokensStored =>
         LET r == returned.oauthState.resourceUri
         IN  /\ getTokens(tokenStore, r) = returned.storedTokens
             /\ tokenStore[r].accessToken # returned.storedTokens.accessToken
             /\ returned.storedTokens.refreshToken # 0 =>
                  tokenStore[r].refreshToken # returned.storedTokens.refreshToken
    /\ ClientStored =>
         LET g == getRegisteredClient(registeredClients, returned.gotClient.issuer,
                                      returned.gotClient.resourceUri,
                                      returned.config.redirectUri, now)
         IN  /\ g.found
             /\ g.client = returned.gotClient
             /\ \A i \in 1..Len(registeredClients) :
                  registeredClients[i].client.clientId = returned.gotClient.clientId =>
                    registeredClients[i].client.clientSecret # returned.gotClient.clientSecret

(* with a key configured, a callback stored an access and a refresh token  *)
(* for a client that was registered with a secret: both stores hold        *)
(* ciphertext and the reads give the plaintext back                        *)
C20_Witness ==
  /\ encryptionKey = KEY
  /\ TokensStored
  /\ returned.storedTokens.refreshToken # 0
  /\ getTokens(tokenStore, returned.oauthState.resourceUri).refreshToken
       = returned.storedTokens.refreshToken
  /\ \E i \in 1..Len(registeredClients) :
       /\ IsCiphertext(registeredClients[i].client.clientSecret)
       /\ PlainClient(registeredClients[i].client).clientSecret = returned.exClientSecret

(* every entry of the map m of OAuthStates is at most STATE_TTL_MS old at t *)
WithinTtl(m, t) == \A s \in DOMAIN m : t - m[s].createdAt <= STATE_TTL_MS

(* C21: pending-state entries are pruned by TTL on every load and every    *)
(* save of the states file: every write of the file contains only entries  *)
(* at most 10 minutes old at the time of the write, and every load keeps   *)
(* only such entries                                                       *)
C21_PrunedOnLoadAndSave ==
  [][/\ statesFile' # statesFile => WithinTtl(statesFile', now')
     /\ epoch' # epoch => WithinTtl(pendingStates', now')]_vars

(* handleAuthCallback found its state, deleted it and saved the file,      *)
(* which now holds another state older than the TTL                        *)
C21_Witness ==
  /\ returned.pc = "done"
  /\ returned.op = "callback"
  /\ returned.foundState
  /\ returned.state \notin DOMAIN statesFile
  /\ statesFile = pendingStates
  /\ ~WithinTtl(statesFile, now)

(* getAccessToken or getOAuthStatus has returned *)
ReadOps == {"getAccessToken", "getOAuthStatus"}

ReadReturned == returned.pc = "done" /\ returned.op \in ReadOps

(* C22: for a well-formed server URL, getAccessToken and getOAuthStatus    *)
(* never throw because of a discovery, client-resolution or refresh        *)
(* failure: getAccessToken returns null (or a token) and getOAuthStatus    *)
(* returns authenticated=false with authorizationRequired=true;            *)
(* getOAuthStatus returns authenticated=true only when a valid or freshly  *)
(* refreshed access token exists for the resource                          *)
C22_ReadHelpersNeverThrow ==
  ReadReturned =>
    /\ returned.op = "getAccessToken" =>
         /\ returned.result.tag \in {"token", "null"}
         /\ returned.result.tag = "token" =>
              returned.result.accessToken = getTokens(tokenStore, RES).accessToken
    /\ returned.op = "getOAuthStatus" =>
         /\ returned.result.tag = "status"
         /\ returned.result.authenticated =>
              /\ getTokens(tokenStore, RES).accessToken # 0
              /\ \/ hasValidTokens(tokenStore, RES, now)
                 \/ /\ returned.refreshOk
                    /\ getTokens(tokenStore, RES).accessToken = returned.refreshedToken
    /\ (returned.netSent > 0 /\ ~returned.gvaEntered) => 
         /\ returned.result.tag \in {"null", "status"}
         /\ ~returned.result.authenticated
    /\ (returned.refreshSent > 0 /\ ~returned.refreshOk) =>
         /\ returned.result.tag \in {"null", "status"}
         /\ ~returned.result.authenticated

(* getOAuthStatus answered authorization required after the refresh it     *)
(* attempted was rejected by the token endpoint                            *)
C22_Witness ==
  /\ ReadReturned
  /\ returned.op = "getOAuthStatus"
  /\ returned.result.tag = "status"
  /\ ~returned.result.authenticated
  /\ returned.refreshSent = 1
  /\ returned.refreshStatus = 400

(* a step of a getAccessToken or getOAuthStatus call: it starts, goes on   *)
(* after an await, or returns                                              *)
ReadStep ==
  /\ \E p \in Procs : call[p].op \in ReadOps \/ call'[p].op \in ReadOps
                       \/ (returned.pc = "idle" /\ returned'.op \in ReadOps)
  /\ now' = now

(* the clients in the registry cs *)
Registered(cs) == {cs[i] : i \in 1..Len(cs)}

(* C23: getAccessToken and getOAuthStatus are read-only apart from the     *)
(* silent refresh: no step of theirs adds or removes a pending OAuthState  *)
(* or adds an entry to the registered-client store, and they send no       *)
(* Dynamic Client Registration request; the only store they may change is  *)
(* the token store                                                         *)
C23_ReadHelpersFrame ==
  [][ReadStep =>
       /\ pendingStates' = pendingStates
       /\ statesFile' = statesFile
       /\ Registered(registeredClients') \subseteq Registered(registeredClients)
       /\ \A p \in Procs : call'[p].op \in ReadOps => call'[p].pc # "await_dcr"]_vars

(* getAccessToken was called without a configured client id, registered a  *)
(* client dynamically and returned null: the registry holds the new client *)
C23_Witness ==
  /\ ReadReturned
  /\ returned.op = "getAccessToken"
  /\ returned.config.clientId = 0
  /\ DcrAccepted(returned.dcrResponse)
  /\ returned.result.tag = "null"
  /\ \E e \in Registered(registeredClients) : e.client.clientId = returned.dcrResponse.client_id

(* an orchestrator operation that used metadata has returned *)
MetadataOps == {"initiate", "getAccessToken", "getOAuthStatus", "handle401", "revoke"}

UsedMetadata == returned.pc = "done" /\ returned.op \in MetadataOps /\ returned.metaUsed

(* C24: metadata is cached with a 1-hour TTL: the protected-resource and   *)
(* authorization-server metadata an orchestrator operation uses was        *)
(* fetched at most 1 hour before the operation used it                     *)
C24_MetadataAtMostOneHourOld ==
  UsedMetadata => returned.metaAge <= CACHE_TTL_MS

(* an operation took metadata fetched more than an hour earlier from the   *)
(* orchestrator's cache and sent no discovery request                      *)
C24_Witness ==
  /\ UsedMetadata
  /\ returned.metaAge > CACHE_TTL_MS
  /\ returned.netSent = 0
  /\ RES \in DOMAIN resourceMetadataCache
  /\ now - resourceMetadataCache[RES].fetchedAt > CACHE_TTL_MS

(* C25: cached metadata is invalidated by an explicit clear: an operation  *)
(* that starts after the orchestrator's clearMetadataCache and needs       *)
(* metadata uses no document fetched before the clear; it sends discovery  *)
(* requests again                                                          *)
C25_ClearInvalidates ==
  (UsedMetadata /\ ~returned.clearedDuring) => returned.metaEra = clears

(* the first operation after a clear took both documents from the caches   *)
(* of the discovery module, fetched before the clear, and sent no request  *)
C25_Witness ==
  /\ UsedMetadata
  /\ ~returned.clearedDuring
  /\ clears = 1
  /\ returned.metaEra = 0
  /\ returned.netSent = 0
  /\ RES \in DOMAIN resourceMetadataCache
  /\ resourceMetadataCache[RES].era = 0

(* a call has returned after storing tokens built from a token response,   *)
(* by exchangeCodeForTokens or by refreshTokens                            *)
TokensBuilt == returned.pc = "done" /\ returned.storedTokens # NoTokens

(* C26: the expiresAt of tokens produced by exchangeCodeForTokens and      *)
(* refreshTokens is the response time plus expires_in seconds whenever the *)
(* response carries expires_in, and the response time plus exactly 1 hour  *)
(* only when the server omits expires_in; token_type defaults to Bearer    *)
(* when absent                                                             *)
C26_ExpiresAtFromResponse ==
  TokensBuilt =>
    LET resp == returned.tokenResponse
        tk == returned.storedTokens
    IN  /\ resp.expires_in # NoExpiresIn => tk.expiresAt = now + resp.expires_in * 1000
        /\ resp.expires_in = NoExpiresIn => tk.expiresAt = now + DEFAULT_EXPIRES_MS
        /\ tk.tokenType = IF resp.token_type = "" THEN "Bearer" ELSE resp.token_type
        /\ getTokens(tokenStore, RES).expiresAt = tk.expiresAt

(* the token endpoint answered expires_in: 0 and the tokens were stored as *)
(* valid for an hour                                                       *)
C26_Witness ==
  /\ TokensBuilt
  /\ returned.tokenResponse.expires_in = 0
  /\ returned.storedTokens.expiresAt = now + DEFAULT_EXPIRES_MS
  /\ hasValidTokens(tokenStore, RES, now)

(* a getAccessToken call has returned after a successful refresh *)
Refreshed == returned.pc = "done" /\ returned.op = "getAccessToken" /\ returned.refreshOk

(* C27: a successful refreshTokens replaces the stored access token and    *)
(* expiry of the resource, and keeps the previously stored refresh token   *)
(* and the recorded issuer when the response carries no refresh_token;     *)
(* when the response carries a new refresh_token, that one is stored       *)
C27_RefreshKeepsRefreshToken ==
  Refreshed =>
    LET resp == returned.tokenResponse
        prev == returned.prevTokens
        cur == getTokens(tokenStore, RES)
    IN  /\ cur.accessToken = resp.access_token
        /\ cur.accessToken # prev.accessToken
        /\ cur.expiresAt = IF Truthy(resp.expires_in) THEN now + resp.expires_in * 1000
                           ELSE now + DEFAULT_EXPIRES_MS
        /\ resp.refresh_token = 0 => cur.refreshToken = prev.refreshToken
        /\ resp.refresh_token # 0 => cur.refreshToken = resp.refresh_token
        /\ returned.prevIssuer # ""
        /\ getTokenIssuer(tokenStore, RES) = returned.prevIssuer
        /\ returned.result.accessToken = resp.access_token

(* a refresh answered without refresh_token: the new access token is       *)
(* stored with the refresh token that was stored before                    *)
C27_Witness ==
  /\ Refreshed
  /\ returned.tokenResponse.refresh_token = 0
  /\ returned.prevTokens.refreshToken # 0
  /\ getTokens(tokenStore, RES).refreshToken = returned.prevTokens.refreshToken
  /\ getTokens(tokenStore, RES).accessToken # returned.prevTokens.accessToken
  /\ getTokens(tokenStore, RES).expiresAt # returned.prevTokens.expiresAt

(* the advertised list contains the method m *)
Advertises(methods, m) ==
  methods.def /\ \E i \in 1..Len(methods.val) : methods.val[i] = m

(* C28: selectPkceMethod returns S256 whenever the advertised list contains *)
(* S256 or is absent or empty, returns plain when the list contains plain   *)
(* but not S256, and returns the unsupported signal (null, here "") when    *)
(* the list is non-empty and contains neither.                              *)
C28_SelectPkceMethod ==
  pure.fn = "selectPkceMethod" =>
    LET l == pure.methods
        absentOrEmpty == (~l.def) \/ Len(l.val) = 0
    IN  /\ (absentOrEmpty \/ Advertises(l, "S256")) => pure.method = "S256"
        /\ (Advertises(l, "plain") /\ ~Advertises(l, "S256")) => pure.method = "plain"
        /\ (~absentOrEmpty /\ ~Advertises(l, "S256") /\ ~Advertises(l, "plain"))
             => pure.method = ""

(* a list that advertises plain before S256 selected S256 *)
C28_Witness ==
  /\ pure.fn = "selectPkceMethod"
  /\ pure.methods.def
  /\ Len(pure.methods.val) = 2
  /\ pure.methods.val[1] = "plain"
  /\ pure.methods.val[2] = "S256"
  /\ pure.method = "S256"

(* RFC 3986 unreserved characters: ALPHA / DIGIT / "-" / "." / "_" / "~" *)
Unreserved ==
  {"A", "B", "C", "D", "E", "F", "G", "H", "I", "J", "K", "L", "M", "N",
   "O", "P", "Q", "R", "S", "T", "U", "V", "W", "X", "Y", "Z", "a", "b",
   "c", "d", "e", "f", "g", "h", "i", "j", "k", "l", "m", "n", "o", "p",
   "q", "r", "s", "t", "u", "v", "w", "x", "y", "z", "0", "1", "2", "3",
   "4", "5", "6", "7", "8", "9", "-", ".", "_", "~"}

(* C29: generateCodeVerifier(length) returns a string of exactly length     *)
(* characters, each from the 66-character unreserved set, for every length  *)
(* from 43 to 128, and fails for every length below 43 or above 128.        *)
C29_GenerateCodeVerifier ==
  /\ Cardinality(Unreserved) = 66
  /\ pure.fn = "generateCodeVerifier" =>
       IF pure.length \in 43..128
       THEN /\ pure.verifier.ok
            /\ Len(pure.verifier.chars) = pure.length
            /\ \A i \in 1..pure.length : pure.verifier.chars[i] \in Unreserved
       ELSE ~pure.verifier.ok

(* a verifier of the longest allowed length was built from bytes that wrap *)
(* around the charset                                                      *)
C29_Witness ==
  /\ pure.fn = "generateCodeVerifier"
  /\ pure.length = 128
  /\ pure.verifier.ok
  /\ pure.randomBytes[1] = 255
  /\ pure.verifier.chars[1] = "5"

(* the resources that hold tokens stored by handleAuthCallback *)
ResourcesWithTokens == DOMAIN tokenStore

(* C30: getCanonicalResourceUri maps URLs that differ only in query string  *)
(* or in trailing slashes to the same key and is idempotent (canonical of a *)
(* canonical URI is itself), so tokens stored by handleAuthCallback for a   *)
(* resource are found by getAccessToken for every such variant of the       *)
(* server URL.                                                              *)
C30_OneKeyPerResource ==
  /\ pure.fn = "getCanonicalResourceUri" =>
       /\ pure.canonical = getCanonicalResourceUri(SERVER_URL)
       /\ pure.again = pure.canonical
  /\ (returned.pc = "done" /\ returned.op = "getAccessToken"
        /\ ResourcesWithTokens # {}) =>
       /\ returned.result.tag = "token"
       /\ \E r \in ResourcesWithTokens :
            returned.result.accessToken = getTokens(tokenStore, r).accessToken

(* tokens were stored for the resource under one variant of its URL and    *)
(* getAccessToken, asked with a variant that has one more trailing slash,  *)
(* found none                                                              *)
C30_Witness ==
  /\ returned.pc = "done"
  /\ returned.op = "getAccessToken"
  /\ returned.serverUrl.slashes = 2
  /\ getCanonicalResourceUri([returned.serverUrl EXCEPT !.slashes = 1]) \in ResourcesWithTokens
  /\ getCanonicalResourceUri(returned.serverUrl) \notin ResourcesWithTokens
  /\ returned.result.tag = "null"

(* the calls waiting for the answer to their registration request *)
Registering == {p \in Procs : call[p].op = "initiate" /\ call[p].pc = "await_dcr"}

(* the client ids in the registry for the resource, issuer and redirect    *)
(* URI of the initiations                                                  *)
RegistryClientIds ==
  {registeredClients[i].client.clientId : i \in 1..Len(registeredClients)}

(* C31: the check-then-register-client sequence is atomic per resource:    *)
(* when two initiateAuthFlow calls for the same resource, issuer and       *)
(* redirect URI overlap and no client is registered yet, at most one       *)
(* Dynamic Client Registration request is sent and both authorization URLs *)
(* carry the same client_id, the one left in the client registry.          *)
C31_RegisterOncePerResource ==
  /\ Cardinality(Registering) <= 1
  /\ \A s, t \in DOMAIN issued : issued[s].url.client_id = issued[t].url.client_id
  /\ \A s \in DOMAIN issued : issued[s].url.client_id \in RegistryClientIds

(* two overlapping initiations have each registered a client: the two      *)
(* authorization URLs carry different client ids and the registry holds    *)
(* only the second                                                         *)
C31_Witness ==
  /\ \A p \in Procs : call[p].pc = "idle"
  /\ \E s, t \in DOMAIN issued :
       /\ issued[s].url.client_id # issued[t].url.client_id
       /\ issued[s].url.client_id \notin RegistryClientIds
       /\ issued[t].url.client_id \in RegistryClientIds
  /\ nextClient = 3

(* a call of removeRegisteredClient has just returned *)
RemoveReturned == returned.pc = "done" /\ returned.op = "removeRegisteredClient"

(* C32: removeRegisteredClient(issuer, resourceUri) removes the client     *)
(* registered for that pair: after it returns, getRegisteredClient(issuer, *)
(* resourceUri, r) returns null for every redirect URI r, and it returns   *)
(* true exactly when a client of that pair was cached.                     *)
C32_RemoveRegisteredClient ==
  RemoveReturned =>
    /\ \A r \in RegRedirects \cup {""} :
         ~getRegisteredClient(registeredClients, returned.asRequested,
                              returned.resourceUri, r, now).found
    /\ (returned.result.tag = "true") <=> (\E e \in EntriesBefore : OfPair(e))

(* a client was registered for the pair, removeRegisteredClient returned   *)
(* false and the lookup with the client's redirect URI still returns it    *)
C32_Witness ==
  /\ RemoveReturned
  /\ returned.result.tag = "false"
  /\ \E e \in EntriesBefore :
       /\ OfPair(e)
       /\ LET look == getRegisteredClient(registeredClients, returned.asRequested,
                                          returned.resourceUri, e.key.redirectUri, now)
          IN  look.found /\ look.client.clientId = e.client.clientId
  /\ registeredClients = returned.regBefore

(* getAccessToken, getOAuthStatus and handle401Response *)
TokenObtainingOps == {"getAccessToken", "getOAuthStatus", "handle401"}

(* the call that has just returned had its refresh rejected with 400 or    *)
(* 401 *)
RefreshRejectedReturned ==
  /\ returned.pc = "done"
  /\ returned.op \in TokenObtainingOps
  /\ returned.refreshStatus \in {400, 401}

(* one callback only has ever got past its state lookup, so every token    *)
(* but the first was issued by a refresh; access tokens are numbered in    *)
(* the order the token endpoint issued them                                *)
OneExchange == Cardinality({st \in StateIds : consumed[st] > 0}) = 1
NewestToken == nextToken - 1

(* the refresh of another call stored new tokens after the returned call   *)
(* read the ones it sent                                                   *)
OtherRefreshStored ==
  /\ OneExchange
  /\ returned.prevTokens.accessToken # 0
  /\ NewestToken > returned.prevTokens.accessToken

(* C33: when two token-obtaining calls (getAccessToken, getOAuthStatus,    *)
(* handle401Response) for the same resource overlap while its access token *)
(* is expired, tokens stored by the refresh that succeeds are not deleted  *)
(* by the 400/401 failure of the other refresh: after both calls finish    *)
(* the resource still holds the newly issued tokens.                       *)
C33_RejectedRefreshKeepsNewerTokens ==
  (RefreshRejectedReturned /\ OtherRefreshStored) =>
    /\ RES \in DOMAIN tokenStore
    /\ getTokens(tokenStore, RES).accessToken = NewestToken

(* two getAccessToken calls overlapped: the refresh of one stored new      *)
(* tokens, the refresh of the other was rejected, and the resource is left *)
(* without tokens                                                          *)
C33_Witness ==
  /\ RefreshRejectedReturned
  /\ returned.op = "getAccessToken"
  /\ OtherRefreshStored
  /\ \A p \in Procs : call[p].pc = "idle"
  /\ RES \notin DOMAIN tokenStore

(* a connect call is in progress *)
Connecting == connection.phase # "idle"

(* C34: ConnectionManager.connect terminates for every server behaviour: a *)
(* connect call eventually returns a status or throws, also against a      *)
(* server that answers every connection attempt with 401 while the locally *)
(* stored access token is unexpired; the retry after handle401Response     *)
(* returned null is taken a bounded number of times.                       *)
C34_ConnectTerminates == Connecting ~> ~Connecting

(* a connect call has called itself again RetryCap times, each time after  *)
(* a 401 from the server, and is about to try the same unexpired token     *)
(* once more                                                               *)
C34_Witness ==
  /\ connection.phase = "connecting"
  /\ connection.retries = RetryCap
  /\ hasValidTokens(tokenStore, RES, now)
  /\ connection.accessToken = getTokens(tokenStore, RES).accessToken

(* C35: handleAuthCallback sends the authorization code to the token       *)
(* endpoint of the same authorization-server metadata document that        *)
(* supplied the authorization endpoint when the state was created, also    *)
(* when that document was accepted at initiation with an issuer field      *)
(* different from the issuer listed by the protected resource.             *)
C35_CallbackUsesInitiationDocument ==
  (returned.op = "callback" /\ returned.exchangeSent > 0)
    => returned.exTokenEndpoint = issued[returned.state].tokenEndpoint

(* the protected resource names the tenant, initiation accepted the        *)
(* tenant's document although it declares the root as its issuer, and the  *)
(* callback for that state has sent the code to a token endpoint           *)
C35_Witness ==
  /\ returned.op = "callback"
  /\ returned.exchangeSent > 0
  /\ world.issuer = TENANT
  /\ issued[returned.state].url.endpoint = TenantDoc(ISSUER).authorization_endpoint
  /\ returned.oauthState.issuer = ISSUER
  /\ returned.exTokenEndpoint # ""

(* a call has returned whose refresh request failed *)
RefreshFailedReturned ==
  /\ returned.pc = "done"
  /\ \/ returned.refreshSent > 0 /\ ~returned.refreshOk
     \/ returned.result.err = NO_REFRESH_TOKEN

(* the entry of resource r in token store ts, if there is one *)
EntryOf(ts, r) == IF r \in DOMAIN ts THEN <<ts[r]>> ELSE << >>

(* C36: refreshTokens that fails for any reason other than HTTP 400 or 401 *)
(* from the token endpoint (another error status, a network failure, a     *)
(* success response without access_token, no refresh token stored) leaves  *)
(* the stored tokens of the resource unchanged, and a failure for one      *)
(* resource never changes the tokens of another resource.                  *)
C36_RefreshFailureFrame ==
  RefreshFailedReturned =>
    \A u \in ResourceUrls :
      LET r == getCanonicalResourceUri(u)
      IN  (r # getCanonicalResourceUri(returned.serverUrl)
             \/ returned.refreshStatus \notin {400, 401})
            => EntryOf(tokenStore, r) = EntryOf(returned.tokensBefore, r)

(* both resources hold tokens and a refresh for one of them has failed     *)
(* with a status other than 400 and 401                                    *)
C36_Witness ==
  /\ RefreshFailedReturned
  /\ returned.refreshStatus \notin {400, 401}
  /\ returned.op = "refreshTokens"
  /\ returned.result.tag = "error"
  /\ \A u \in ResourceUrls : getCanonicalResourceUri(u) \in DOMAIN returned.tokensBefore
  /\ returned.prevTokens.refreshToken # 0

(* an initiateAuthFlow call has returned or thrown *)
InitiateReturned == returned.pc = "done" /\ returned.op = "initiate"

(* C37: when initiateAuthFlow returns (authorizationUrl, state), the       *)
(* pending store holds an OAuthState under that state value with the       *)
(* canonical resource URI, the config's redirect URI, the metadata's       *)
(* issuer and the creation time, and the URL carries that state,           *)
(* response_type=code, the client_id, the redirect URI, the resource and a *)
(* code_challenge_method that is S256 or plain; when initiateAuthFlow      *)
(* throws, no pending state was added.                                     *)
C37_InitiateAuthFlow ==
  InitiateReturned =>
    IF returned.result.tag = "url"
      THEN LET st == returned.result.state
               url == returned.result.url
               r == getCanonicalResourceUri(returned.serverUrl)
           IN  /\ st \in DOMAIN pendingStates
               /\ pendingStates[st].state = st
               /\ pendingStates[st].resourceUri = r
               /\ pendingStates[st].redirectUri = returned.config.redirectUri
               /\ pendingStates[st].issuer = resourceMetadataCache[r].authServer.issuer
               /\ pendingStates[st].createdAt = now
               /\ url.state = st
               /\ url.response_type = "code"
               /\ url.client_id # 0
               /\ returned.config.clientId # 0 => url.client_id = returned.config.clientId
               /\ url.redirect_uri = returned.config.redirectUri
               /\ url.resource = r
               /\ url.code_challenge_method \in {"S256", "plain"}
      ELSE returned.created = 0

(* initiateAuthFlow has thrown after it stored a pending state: the        *)
(* authorization endpoint of the accepted document is no absolute URL      *)
C37_Witness ==
  /\ InitiateReturned
  /\ returned.result.tag = "error"
  /\ returned.created = 1
  /\ \E st \in DOMAIN pendingStates :
       /\ st \notin DOMAIN issued
       /\ st \in DOMAIN statesFile
       /\ pendingStates[st].resourceUri = getCanonicalResourceUri(returned.serverUrl)

(* a handleAuthCallback call ends at once because its state value is not   *)
(* in the pending store                                                    *)
UnknownStateRejected ==
  /\ returned.pc = "idle"
  /\ returned'.pc = "done"
  /\ returned'.op = "callback"
  /\ call' = call
  /\ returned'.state \notin DOMAIN pendingStates

(* C38: handleAuthCallback with a state value that is not in the pending   *)
(* store fails with the invalid-or-expired-state error without sending any *)
(* network request and leaves the pending store, the persisted states      *)
(* file, the token store and the client registry unchanged.                *)
C38_UnknownStateRejected ==
  [][UnknownStateRejected =>
       /\ returned'.result = Error(INVALID_STATE)
       /\ returned'.netSent = 0
       /\ ~returned'.foundState
       /\ UNCHANGED <<pendingStates, statesFile, tokenStore, registeredClients>>]_vars

(* a callback with an unknown state value has been rejected while another  *)
(* state is pending and tokens are stored                                  *)
C38_Witness ==
  /\ returned.pc = "done"
  /\ returned.op = "callback"
  /\ ~returned.foundState
  /\ returned.result = Error(INVALID_STATE)
  /\ pendingStates # EmptyMap
  /\ statesFile # EmptyMap
  /\ tokenStore # EmptyMap

(* a handleAuthCallback call that found its state has returned or thrown   *)
CallbackReturned ==
  /\ returned.pc = "done"
  /\ returned.op = "callback"
  /\ returned.foundState

(* C39: a successful handleAuthCallback stores the exchanged tokens under  *)
(* the resource URI and issuer recorded in the consumed state, removes     *)
(* only that state from the pending store, and leaves the tokens of every  *)
(* other resource and every other pending state unchanged; a               *)
(* handleAuthCallback that fails after the state lookup stores no tokens.  *)
C39_CallbackFrame ==
  CallbackReturned =>
    LET os == returned.oauthState
    IN  IF returned.result.tag = "tokens"
          THEN /\ getTokens(tokenStore, os.resourceUri) = returned.storedTokens
               /\ returned.storedTokens.accessToken = returned.tokenResponse.access_token
               /\ getTokenIssuer(tokenStore, os.resourceUri) = os.issuer
               /\ \A u \in ResourceUrls :
                    getCanonicalResourceUri(u) # os.resourceUri
                      => EntryOf(tokenStore, getCanonicalResourceUri(u))
                           = EntryOf(returned.tokensBefore, getCanonicalResourceUri(u))
               /\ returned.state \in DOMAIN returned.pendingBefore
               /\ pendingStates = MapDelete(returned.pendingBefore, returned.state)
          ELSE tokenStore = returned.tokensBefore

(* a callback for one resource has stored its tokens while the other       *)
(* resource holds tokens and another state is pending                      *)
C39_Witness ==
  /\ CallbackReturned
  /\ returned.result.tag = "tokens"
  /\ pendingStates # EmptyMap
  /\ \E u \in ResourceUrls :
       /\ getCanonicalResourceUri(u) # returned.oauthState.resourceUri
       /\ getCanonicalResourceUri(u) \in DOMAIN returned.tokensBefore

(* no call is in progress and none is handing over its result *)
NothingInProgress == Quiet /\ \A p \in Procs : call[p].pc = "idle"

(* C40: the persisted states file mirrors the in-memory pending store:     *)
(* provided file writes succeed, whenever no state-changing step of        *)
(* initiateAuthFlow, handleAuthCallback or the expiry sweep is in          *)
(* progress, the set of states in the file equals the set of states in     *)
(* memory.                                                                 *)
C40_FileMirrorsMemory ==
  NothingInProgress => DOMAIN statesFile = DOMAIN pendingStates

(* C40 as the code has it: every state in memory is in the file with the   *)
(* same content, every state of the file that memory does not hold is      *)
(* older than STATE_TTL_MS, and no state of the file has been consumed, so *)
(* a restart neither resurrects a consumed state nor loses a pending       *)
(* non-expired one.                                                        *)
C40_FileCoversMemory ==
  /\ \A s \in DOMAIN pendingStates :
       s \in DOMAIN statesFile /\ statesFile[s] = pendingStates[s]
  /\ \A s \in DOMAIN statesFile \ DOMAIN pendingStates :
       now - statesFile[s].createdAt > STATE_TTL_MS
  /\ \A s \in DOMAIN statesFile : consumed[s] = 0

(* after a restart nothing is in progress, a state is pending, and the     *)
(* file still holds an expired state that the load did not take            *)
C40_Witness ==
  /\ NothingInProgress
  /\ epoch > 0
  /\ pendingStates # EmptyMap
  /\ DOMAIN statesFile # DOMAIN pendingStates

====
